---- MODULE Spec2Model ----
(***************************************************************************)
(* ProCircle discount issuance and redemption reconciliation.              *)
(*                                                                         *)
(* The model follows server/routes/discounts.mjs (POST /create, current    *)
(* revision, lines 1-344), server/routes/webhooks.mjs (POST /orders-create *)
(* and POST /app-uninstalled), server/webhooks/appUninstalled.mjs, the     *)
(* settings route and the Prisma migrations.                               *)
(* Every `await` on the database or on the external                        *)
(* platform is one atomic step; the synchronous code between two awaits    *)
(* belongs to the step that precedes it.                                   *)
(***************************************************************************)
EXTENDS Integers, Sequences, FiniteSets, TLC

(***************************************************************************)
(* Bounds of the model.                                                    *)
(***************************************************************************)
NReq == 2          \* issuance requests in flight at once (Spec)
NCodes == 2        \* distinct outputs of the code generator
MaxTime == 2       \* last day of the clock
MaxNameLen == 7    \* characters of a display name

(***************************************************************************)
(* Values.                                                                 *)
(***************************************************************************)
NullInt == -1                      \* SQL NULL / JS null in an integer column
NoCode == 0                        \* no discount code
Codes == 1 .. NCodes               \* codes generateDiscountCode can return
NoSecret == ""                     \* process.env.X is undefined
NoHeader == <<>>                   \* request carries no X-Shopify-Hmac-Sha256
Users == {"alice", "bob", "carol"}
Orders == {1, 2}                   \* order ids the platform reports
DbShops == {"s1", "s2"}            \* shopDomain of the rows of table Shop
ShopDomains == DbShops \cup {"sx"} \* "sx": a domain with no Shop row
NaN == -1000                       \* Number(x) of a non-numeric x

\* JSON values of a request body field that the code passes to Number():
\* a number, a string (v: the number it spells, NaN if it spells none),
\* true, null, and undefined for an absent field
Num(n) == [t |-> "number", v |-> n]
Str(n) == [t |-> "string", v |-> n]
JsTrue == [t |-> "boolean", v |-> 1]
JsFalse == [t |-> "boolean", v |-> 0]
JsNull == [t |-> "null", v |-> 0]
Undefined == [t |-> "undefined", v |-> NaN]

\* Number(x)
JsNumber(x) ==
  CASE x.t = "number" -> x.v
    [] x.t = "string" -> x.v
    [] x.t = "boolean" -> x.v
    [] x.t = "null" -> 0
    [] x.t = "undefined" -> NaN

\* x ? ... : ... and !!x of a JSON value
Truthy(x) ==
  CASE x.t = "number" -> x.v # 0 /\ x.v # NaN
    [] x.t = "string" -> TRUE
    [] x.t = "boolean" -> x.v = 1
    [] x.t = "null" -> FALSE
    [] x.t = "undefined" -> FALSE

DefaultExpiryDays == 30            \* clean.expiryDays ?? settings.expiryDays ?? 30
MinExpiryDays == 1                 \* Math.max(1, ...)
MaxExpiryDays == 365               \* Math.min(365, ...)

NoSettings == [present |-> FALSE, maxDiscounts |-> NullInt,
               expiryDays |-> NullInt, categories |-> <<>>,
               oneTimeUse |-> TRUE,
               allowedCountries |-> {}, allowedMemberTypes |-> {}]
Cfg(max, countries, memberTypes) ==
  [present |-> TRUE, maxDiscounts |-> max,
   expiryDays |-> NullInt, categories |-> <<"shoes">>,
   oneTimeUse |-> TRUE,
   allowedCountries |-> countries, allowedMemberTypes |-> memberTypes]

\* shop.id of a Shop row (SERIAL primary key)
ShopId(domain) == IF domain = "s1" THEN 1 ELSE 2

VARIABLES
  env,        \* process.env: the two webhook secrets
  shops,      \* table Shop, by shopDomain
  settings,   \* table ShopSettings, by shopDomain (1:1 with Shop)
  ledger,     \* table Discount, in insertion order (index = id)
  req,        \* issuance requests: one record per handler invocation slot
  hook,       \* webhook deliveries: one record per handler invocation slot
  applied,    \* history: per Discount row, the order ids of the last two
              \* redemption updates applied to it (oldest first)
  now,        \* the clock (Date.now(), CURRENT_TIMESTAMP), in days
  gen,        \* a call of generateDiscountCode: its argument and its result
  sync        \* a request to the discounts router outside POST /create

vars == <<env, shops, settings, ledger, req, hook, applied, now, gen, sync>>

\* No call of generateDiscountCode observed; no such request received
NoGen == [name |-> <<>>, code |-> <<>>]
NoSync == [path |-> "", code |-> NoCode, status |-> 0]

(***************************************************************************)
(* Table Discount.                                                         *)
(***************************************************************************)
\* Faulty variant of NewDiscount, used to test the properties below: the
\* row expires the default number of days after its creation.
NewDiscountDefaultExpiry(shopId, userId, code, amount, expiresAt, createdAt) ==
  [shopId |-> shopId, userId |-> userId, code |-> code, amount |-> amount,
   type |-> "percentage", syncedToShopify |-> FALSE,
   expiresAt |-> createdAt + DefaultExpiryDays, createdAt |-> createdAt,
   redeemedAt |-> NullInt, orderId |-> NullInt, orderAmount |-> NullInt,
   active |-> TRUE]

\* data of prisma.discount.create and the defaults of the Discount table
NewDiscount(shopId, userId, code, amount, expiresAt, createdAt) ==
  [shopId |-> shopId, userId |-> userId, code |-> code, amount |-> amount,
   type |-> "percentage", syncedToShopify |-> FALSE,
   expiresAt |-> expiresAt, createdAt |-> createdAt,
   redeemedAt |-> NullInt, orderId |-> NullInt, orderAmount |-> NullInt,
   active |-> TRUE]

\* prisma.discount.findFirst({ where: { shopId, userId } }) returned a row
FindFirstByUser(rows, shopId, userId) ==
  \E i \in 1 .. Len(rows) : rows[i].shopId = shopId /\ rows[i].userId = userId

\* prisma.discount.count({ where: { shopId } })
RECURSIVE CountByShop(_, _)
CountByShop(rows, shopId) ==
  IF rows = <<>> THEN 0
  ELSE (IF Head(rows).shopId = shopId THEN 1 ELSE 0)
       + CountByShop(Tail(rows), shopId)

\* Faulty variant of FindUniqueByCode, used to test the properties below:
\* a code that no row carries yields the first row.
FindUniqueByCodeOrFirst(rows, code) ==
  IF \E i \in 1 .. Len(rows) : rows[i].code = code
  THEN CHOOSE i \in 1 .. Len(rows) : rows[i].code = code
  ELSE IF rows = <<>> THEN 0 ELSE 1

\* prisma.discount.findUnique({ where: { code } }): the row's id, or 0
FindUniqueByCode(rows, code) ==
  IF \E i \in 1 .. Len(rows) : rows[i].code = code
  THEN CHOOSE i \in 1 .. Len(rows) : rows[i].code = code
  ELSE 0

\* Faulty variant of CodeTaken, used to test the properties below: the
\* table has no unique index on the code.
CodeTakenWithoutIndex(rows, code) == FALSE

\* CREATE UNIQUE INDEX "Discount_code_key": the insert is rejected
CodeTaken(rows, code) == \E i \in 1 .. Len(rows) : rows[i].code = code

(***************************************************************************)
(* POST /create: payload validation and eligibility.                       *)
(***************************************************************************)
\* Faulty variant of ValidationErrors, used to test the properties below:
\* validation stops at the first violated rule.
ValidationErrorsFirstOnly(body) ==
  IF body.shopDomain = "" THEN <<"shopDomain required">>
  ELSE IF body.userId = "" THEN <<"userId required">>
  ELSE IF body.email = "" THEN <<"email required">>
  ELSE IF LET amount == JsNumber(body.amount) IN
           amount = NaN \/ amount <= 0 \/ amount > 100
       THEN <<"amount must be 1-100 (percentage only)">>
       ELSE <<>>

\* Faulty variant of ValidationErrors, used to test the properties below:
\* the amount has no upper limit.
ValidationErrorsNoUpperLimit(body) ==
  (IF body.shopDomain = "" THEN <<"shopDomain required">> ELSE <<>>)
  \o (IF body.userId = "" THEN <<"userId required">> ELSE <<>>)
  \o (IF body.email = "" THEN <<"email required">> ELSE <<>>)
  \o (IF LET amount == JsNumber(body.amount) IN
           amount = NaN \/ amount <= 0
      THEN <<"amount must be 1-100 (percentage only)">> ELSE <<>>)

\* errors of validateDiscountPayload, in the order they are pushed
ValidationErrors(body) ==
  (IF body.shopDomain = "" THEN <<"shopDomain required">> ELSE <<>>)
  \o (IF body.userId = "" THEN <<"userId required">> ELSE <<>>)
  \o (IF body.email = "" THEN <<"email required">> ELSE <<>>)
  \o (IF LET amount == JsNumber(body.amount) IN
           amount = NaN \/ amount <= 0 \/ amount > 100
      THEN <<"amount must be 1-100 (percentage only)">> ELSE <<>>)

\* Number(body.expiryDays) || 1
NumberOr1(x) == IF x = NaN \/ x = 0 THEN 1 ELSE x

Min(a, b) == IF a < b THEN a ELSE b
Max(a, b) == IF a > b THEN a ELSE b

\* clean.expiryDays of validateDiscountPayload: null when body.expiryDays
\* == null, otherwise its number clamped to 1..365
CleanExpiryDays(x) ==
  IF x.t \in {"null", "undefined"} THEN NullInt
  ELSE Max(MinExpiryDays, Min(MaxExpiryDays, NumberOr1(JsNumber(x))))

\* clean.expiryDays ?? settings.expiryDays ?? 30
ExpiryDays(cleanDays, cfgDays) ==
  IF cleanDays # NullInt THEN cleanDays
  ELSE IF cfgDays # NullInt THEN cfgDays
  ELSE DefaultExpiryDays

\* A list field of the body is the set of its elements when it is an
\* array; a value that is no array (a string, an object) is the set of what
\* it holds marked with NotArray.
NotArray(x) == x \cup {"(not an array)"}

\* Faulty variant of CleanList, used to test the properties below: a value
\* that is no array is taken as the list of what it holds.
CleanListOfAnything(x) == x \ {"(not an array)"}

\* Array.isArray(x) ? x : []
CleanList(x) == IF "(not an array)" \in x THEN {} ELSE x

\* settings.allowedCountries?.length guard and the .some(...) test
CountryAllowed(s, body) ==
  s.allowedCountries # {}
    => (CleanList(body.allowedCountries) \cap s.allowedCountries) # {}

MemberTypeAllowed(s, body) ==
  s.allowedMemberTypes # {}
    => (CleanList(body.allowedMemberTypes) \cap s.allowedMemberTypes) # {}

\* settings.maxDiscounts && settings.maxDiscounts > 0
QuotaConfigured(max) == max # NullInt /\ max # 0 /\ max > 0

\* Faulty variant of QuotaReached, used to test the properties below: the comparison is off by one.
QuotaReachedStrict(total, max) == total > max

\* total >= settings.maxDiscounts
QuotaReached(total, max) == total >= max

(***************************************************************************)
(* Issuance request slots.                                                 *)
(***************************************************************************)
\* errors: the details of a 400 "Validation failed" response; expiryDays:
\* the value step 5 computes, whose operands are fixed once validation and
\* the shop's settings are done; endsAt: expiresAtIso; lookups and creates:
\* the calls made to the platform (collections by handle, Admin GraphQL);
\* gids: collectionGids; warned: the console.warn calls of getCollectionGids;
\* confirmed: the code of codeDiscountNode in the platform's answer;
\* oneTimeUse: clean.oneTimeUse; usageLimit and appliesTo: those of the
\* input of the creation call.
IdleReq ==
  [pc |-> "idle", shopDomain |-> "", userId |-> "", amount |-> 0,
   maxDiscounts |-> NullInt, categories |-> <<>>, expiryDays |-> NullInt,
   endsAt |-> NullInt, code |-> NoCode, status |-> 0, errors |-> <<>>,
   lookups |-> 0, creates |-> 0, gids |-> <<>>, warned |-> 0,
   confirmed |-> NoCode, oneTimeUse |-> FALSE, usageLimit |-> NullInt,
   appliesTo |-> ""]

Responded(r, status) == [r EXCEPT !.pc = "done", !.status = status]

\* Step 5: expiresAtIso = Date.now() + expiryDays * 86400000, computed when
\* the last check has passed
ToPublish(r) ==
  [r EXCEPT !.pc = "publish", !.endsAt = now + r.expiryDays]

\* Steps 1-3: validate, load shop + settings, country / member-type gating.
\* The request then waits for prisma.discount.findFirst.
BeginStatus(body) ==
  IF ValidationErrors(body) # <<>> THEN 400
  ELSE IF body.shopDomain \notin DbShops THEN 404
  ELSE IF ~CountryAllowed(settings[body.shopDomain], body) THEN 403
  ELSE IF ~MemberTypeAllowed(settings[body.shopDomain], body) THEN 403
  ELSE 0

Begin(r, body) ==
  /\ req[r].pc \in {"idle", "done"}
  /\ LET st == BeginStatus(body) IN
       req' = [req EXCEPT ![r] =
                 IF st # 0
                 THEN [Responded(IdleReq, st) EXCEPT
                         !.errors = ValidationErrors(body)]
                 ELSE [IdleReq EXCEPT
                         !.pc = "dup",
                         !.shopDomain = body.shopDomain,
                         !.userId = body.userId,
                         !.amount = JsNumber(body.amount),
                         !.oneTimeUse = Truthy(body.oneTimeUse),
                         !.maxDiscounts =
                            settings[body.shopDomain].maxDiscounts,
                         !.categories =
                            settings[body.shopDomain].categories,
                         !.expiryDays =
                            ExpiryDays(CleanExpiryDays(body.expiryDays),
                                       settings[body.shopDomain].expiryDays)]]
  /\ UNCHANGED <<env, shops, settings, ledger, hook, applied, now, gen, sync>>

\* Faulty variant of DupCheck, used to test the properties below: the quota is compared before the duplicate is looked
\* at, so that a full shop answers 429 to a user who holds a record.
DupCheckQuotaFirst(r) ==
  /\ req[r].pc = "dup"
  /\ req' = [req EXCEPT ![r] =
       IF /\ QuotaConfigured(req[r].maxDiscounts)
          /\ CountByShop(ledger, ShopId(req[r].shopDomain))
               >= req[r].maxDiscounts
       THEN Responded(req[r], 429)
       ELSE IF FindFirstByUser(ledger, ShopId(req[r].shopDomain),
                               req[r].userId)
            THEN Responded(req[r], 409)
            ELSE IF QuotaConfigured(req[r].maxDiscounts)
                 THEN [req[r] EXCEPT !.pc = "count"]
                 ELSE ToPublish(req[r])]
  /\ UNCHANGED <<env, shops, settings, ledger, hook, applied, now, gen, sync>>

\* Step 4a: prisma.discount.findFirst resolves; 409 if the user has a row.
DupCheck(r) ==
  /\ req[r].pc = "dup"
  /\ req' = [req EXCEPT ![r] =
       IF FindFirstByUser(ledger, ShopId(req[r].shopDomain), req[r].userId)
       THEN Responded(req[r], 409)
       ELSE IF QuotaConfigured(req[r].maxDiscounts)
            THEN [req[r] EXCEPT !.pc = "count"]
            ELSE ToPublish(req[r])]
  /\ UNCHANGED <<env, shops, settings, ledger, hook, applied, now, gen, sync>>

\* Faulty variant of QuotaCheck, used to test the properties below: the
\* collections are looked up before the count is compared.
QuotaCheckAfterLookup(r) ==
  /\ req[r].pc = "count"
  /\ req' = [req EXCEPT ![r] =
       IF QuotaReached(CountByShop(ledger, ShopId(req[r].shopDomain)),
                       req[r].maxDiscounts)
       THEN Responded([req[r] EXCEPT !.lookups = Len(req[r].categories)], 429)
       ELSE ToPublish(req[r])]
  /\ UNCHANGED <<env, shops, settings, ledger, hook, applied, now, gen, sync>>

\* Step 4b: prisma.discount.count resolves; 429 if the quota is reached.
QuotaCheck(r) ==
  /\ req[r].pc = "count"
  /\ req' = [req EXCEPT ![r] =
       IF QuotaReached(CountByShop(ledger, ShopId(req[r].shopDomain)),
                       req[r].maxDiscounts)
       THEN Responded(req[r], 429)
       ELSE ToPublish(req[r])]
  /\ UNCHANGED <<env, shops, settings, ledger, hook, applied, now, gen, sync>>

\* Outcomes of the Admin GraphQL call (steps 6-8) and the status each yields
PublishOutcomes == {"ok", "http", "malformed", "userErrors", "throw"}

\* The answers without userErrors: the platform confirms the code it was
\* sent ("ok"), or a code it has normalized to another string.
AcceptedOutcomes == {"ok", "normalized"}

\* codes { nodes { code } } of DISCOUNT_MUTATION: the code the platform
\* stores when it normalizes the one it was sent
NormalizedCode(code) == code + 100

ConfirmedCode(code, outcome) ==
  IF outcome = "normalized" THEN NormalizedCode(code) ELSE code

\* Faulty variant of PublishStatus, used to test the properties below: the
\* userErrors of the platform's answer are ignored.
PublishStatusIgnoringUserErrors(outcome) ==
  CASE outcome = "ok" -> 0
    [] outcome = "http" -> 502
    [] outcome = "malformed" -> 500
    [] outcome = "userErrors" -> 0
    [] outcome = "throw" -> 500
    [] outcome = "normalized" -> 0

PublishStatus(outcome) ==
  CASE outcome = "ok" -> 0
    [] outcome = "http" -> 502
    [] outcome = "malformed" -> 500
    [] outcome = "userErrors" -> 400
    [] outcome = "throw" -> 500
    [] outcome = "normalized" -> 0

\* Results of client.get({ path: "collections", query: { handle } }): a
\* collection with an id, a body without one, a rejection
LookupResults == {"found", "missing", "error"}

Gid(handle) == <<"gid://shopify/Collection", handle>>

\* Faulty variant of GetCollectionGids, used to test the properties below:
\* the first lookup that throws ends the loop.
RECURSIVE GetCollectionGidsUntilError(_, _)
GetCollectionGidsUntilError(handles, results) ==
  IF handles = <<>> \/ Head(results) = "error" THEN <<>>
  ELSE (IF Head(results) = "found" THEN <<Gid(Head(handles))>> ELSE <<>>)
       \o GetCollectionGidsUntilError(Tail(handles), Tail(results))

\* getCollectionGids: results[i] is the result of the lookup of handles[i]
RECURSIVE GetCollectionGids(_, _)
GetCollectionGids(handles, results) ==
  IF handles = <<>> THEN <<>>
  ELSE (IF Head(results) = "found" THEN <<Gid(Head(handles))>> ELSE <<>>)
       \o GetCollectionGids(Tail(handles), Tail(results))

\* the catch of the loop body: one console.warn per lookup that throws
RECURSIVE Warnings(_)
Warnings(results) ==
  IF results = <<>> THEN 0
  ELSE (IF Head(results) = "error" THEN 1 ELSE 0) + Warnings(Tail(results))

\* The lookups of a request whose handles all resolve
AllFound(r) == [i \in 1 .. Len(req[r].categories) |-> "found"]

\* usageLimit: clean.oneTimeUse ? 1 : null
UsageLimit(oneTimeUse) == IF oneTimeUse THEN 1 ELSE NullInt

\* appliesTo: collectionGids.length ? { collectionsToAdd } : { all: true }
AppliesTo(gids) == IF gids # <<>> THEN "collectionsToAdd" ELSE "all"

\* Steps 6-8: one collection lookup per handle of settings.categories (a
\* failed lookup is skipped), generateDiscountCode, fetch + json.
Called(r) == [r EXCEPT !.lookups = Len(r.categories), !.creates = @ + 1]

Publish(r, code, outcome, results) ==
  /\ req[r].pc = "publish"
  /\ LET called == [Called(req[r]) EXCEPT
                      !.gids = GetCollectionGids(req[r].categories, results),
                      !.warned = Warnings(results),
                      !.usageLimit = UsageLimit(req[r].oneTimeUse),
                      !.appliesTo =
                         AppliesTo(GetCollectionGids(req[r].categories,
                                                     results))]
     IN req' = [req EXCEPT ![r] =
          IF PublishStatus(outcome) # 0
          THEN Responded(called, PublishStatus(outcome))
          ELSE [called EXCEPT !.pc = "save", !.code = code,
                              !.confirmed = ConfirmedCode(code, outcome)]]
  /\ UNCHANGED <<env, shops, settings, ledger, hook, applied, now, gen, sync>>

\* Step 9: prisma.discount.create; a unique-index violation is thrown and
\* caught by the handler's catch (500); otherwise res.json (status 200).
Save(r) ==
  /\ req[r].pc = "save"
  /\ IF CodeTaken(ledger, req[r].code)
     THEN /\ req' = [req EXCEPT ![r] = Responded(req[r], 500)]
          /\ UNCHANGED <<ledger, applied>>
     ELSE /\ ledger' = Append(ledger,
                 NewDiscount(ShopId(req[r].shopDomain), req[r].userId,
                             req[r].code, req[r].amount,
                             req[r].endsAt, now))
          /\ applied' = Append(applied, <<NullInt, NullInt>>)
          /\ req' = [req EXCEPT ![r] = Responded(req[r], 200)]
  /\ UNCHANGED <<env, shops, settings, hook, now, gen, sync>>

\* Step 9 when prisma.discount.create rejects for a reason other than the
\* unique index (connection lost, timeout): the catch answers 500 and no
\* row is written; the discount published in step 8 stays on the platform.
SaveFails(r) ==
  /\ req[r].pc = "save"
  /\ req' = [req EXCEPT ![r] = Responded(req[r], 500)]
  /\ UNCHANGED <<env, shops, settings, ledger, hook, applied, now, gen, sync>>

(***************************************************************************)
(* generateDiscountCode.  A string is a sequence of characters; "sz" stands *)
(* for the letter sharp s (U+00DF), whose upper case is the two letters SS. *)
(***************************************************************************)
IsSpace(c) == c = " "

LowerCase == <<"a", "b", "c", "d", "e", "f">>
UpperCase == <<"A", "B", "C", "D", "E", "F">>

\* c.toUpperCase() of one character: a string
CharToUpperCase(c) ==
  IF c = "sz" THEN <<"S", "S">>
  ELSE IF \E i \in DOMAIN LowerCase : LowerCase[i] = c
       THEN <<UpperCase[CHOOSE i \in DOMAIN LowerCase : LowerCase[i] = c]>>
       ELSE <<c>>

\* s.toUpperCase()
RECURSIVE ToUpperCase(_)
ToUpperCase(s) ==
  IF s = <<>> THEN <<>> ELSE CharToUpperCase(Head(s)) \o ToUpperCase(Tail(s))

\* s.trim()
RECURSIVE TrimStart(_)
TrimStart(s) ==
  IF s # <<>> /\ IsSpace(Head(s)) THEN TrimStart(Tail(s)) ELSE s

RECURSIVE TrimEnd(_)
TrimEnd(s) ==
  IF s # <<>> /\ IsSpace(s[Len(s)])
  THEN TrimEnd(SubSeq(s, 1, Len(s) - 1)) ELSE s

Trim(s) == TrimEnd(TrimStart(s))

\* s.split(/\s+/): the pieces between the runs of whitespace, an empty
\* piece before a leading and after a trailing run; [""] for ""
RECURSIVE Split(_)
Split(s) ==
  IF \A i \in DOMAIN s : ~IsSpace(s[i]) THEN <<s>>
  ELSE LET i == CHOOSE k \in DOMAIN s :
                  IsSpace(s[k]) /\ \A m \in 1 .. k - 1 : ~IsSpace(s[m])
       IN <<SubSeq(s, 1, i - 1)>> \o Split(TrimStart(SubSeq(s, i, Len(s))))

\* parts.map(part => part[0]?.toUpperCase() || "").join("")
RECURSIVE JoinInitials(_)
JoinInitials(parts) ==
  IF parts = <<>> THEN <<>>
  ELSE (IF Head(parts) = <<>> THEN <<>> ELSE CharToUpperCase(Head(parts)[1]))
       \o JoinInitials(Tail(parts))

\* s.substring(0, n)
Substring(s, n) == SubSeq(s, 1, IF Len(s) < n THEN Len(s) ELSE n)

\* Faulty variant of Initials, used to test the properties below: the
\* initials are not cut.
InitialsOfAllTokens(name) == JoinInitials(Split(Trim(name)))

\* const initials of generateDiscountCode
Initials(name) == Substring(JoinInitials(Split(Trim(name))), 3)

\* buffer.toString("hex"): two lower-case digits per byte
HexDigits ==
  <<"0", "1", "2", "3", "4", "5", "6", "7", "8", "9",
    "a", "b", "c", "d", "e", "f">>

RECURSIVE ToHex(_)
ToHex(bytes) ==
  IF bytes = <<>> THEN <<>>
  ELSE <<HexDigits[(Head(bytes) \div 16) + 1],
         HexDigits[(Head(bytes) % 16) + 1]>> \o ToHex(Tail(bytes))

\* `PRC-${initials || "XX"}-${randomPart}`, bytes being crypto.randomBytes(3)
GenerateDiscountCode(name, bytes) ==
  <<"P", "R", "C", "-">>
  \o (IF Initials(name) = <<>> THEN <<"X", "X">> ELSE Initials(name))
  \o <<"-">>
  \o ToUpperCase(ToHex(bytes))

\* One call of the generator on the name drawn initially.
Generate(bytes) ==
  /\ gen.code = <<>>
  /\ gen' = [gen EXCEPT !.code = GenerateDiscountCode(gen.name, bytes)]
  /\ UNCHANGED <<env, shops, settings, ledger, req, hook, applied, now, sync>>

(***************************************************************************)
(* The discounts router outside POST /create.                              *)
(***************************************************************************)
\* The value of process.env.GOOGLE_SHEET_SECRET where it is configured
ApiKey == "g1"

\* Faulty variant of ApiKeyStatus, used to test the properties below: the
\* header is only compared with the key, so that an absent header equals a
\* key that is not configured.
ApiKeyStatusComparedOnly(token) ==
  IF token # env.GOOGLE_SHEET_SECRET THEN 401 ELSE 0

\* router.use: the x-api-key header ("" when absent) must be present and be
\* the configured key (NoSecret when the variable is unset)
ApiKeyStatus(token) ==
  IF token = "" \/ token # env.GOOGLE_SHEET_SECRET THEN 401 ELSE 0

\* POST /api/discounts/create with its x-api-key header: the router's key
\* check answers 401 and the handler does not run, or calls next() and the
\* handler begins.
CreateRequest(r, body, token) ==
  IF ApiKeyStatus(token) # 0
  THEN /\ req[r].pc \in {"idle", "done"}
       /\ req' = [req EXCEPT ![r] = Responded(IdleReq, ApiKeyStatus(token))]
       /\ UNCHANGED <<env, shops, settings, ledger, hook, applied, now, gen,
                      sync>>
  ELSE Begin(r, body)

\* The routes the router registers after its middleware
DiscountRoutes == {"POST /create"}

\* A request to a path of /api/discounts: after the key check the router
\* looks for a route; when none matches, no handler runs, nothing is read
\* or written and the framework answers 404.
DiscountsRequest(route, code, token) ==
  /\ route \notin DiscountRoutes
  /\ sync' = [path |-> route, code |-> code,
              status |-> IF ApiKeyStatus(token) # 0 THEN ApiKeyStatus(token)
                         ELSE 404]
  /\ UNCHANGED <<env, shops, settings, ledger, req, hook, applied, now, gen>>

(***************************************************************************)
(* POST /api/settings and the clock.                                       *)
(***************************************************************************)
\* x ? Number(x) : null
NumberOrNull(x) == IF Truthy(x) THEN JsNumber(x) ELSE NullInt

\* The settings route: the clean object is upserted for the shop.  The Shop
\* row read before the upsert cannot vanish, so the two awaits are one step.
SaveSettings(domain, input) ==
  /\ domain \in DbShops
  /\ settings' = [settings EXCEPT ![domain] =
       [present |-> TRUE,
        maxDiscounts |-> NumberOrNull(input.maxDiscounts),
        expiryDays |-> NumberOrNull(input.expiryDays),
        categories |-> input.categories,
        oneTimeUse |-> Truthy(input.oneTimeUse),
        allowedCountries |-> input.allowedCountries,
        allowedMemberTypes |-> input.allowedMemberTypes]]
  /\ UNCHANGED <<env, shops, ledger, req, hook, applied, now, gen, sync>>

\* A day passes.  The clock counts days, and a request is served within the
\* day it arrives.
Tick ==
  /\ now < MaxTime
  /\ \A r \in DOMAIN req : req[r].pc \in {"idle", "done"}
  /\ now' = now + 1
  /\ UNCHANGED <<env, shops, settings, ledger, req, hook, applied, gen, sync>>

(***************************************************************************)
(* Webhook verification (both endpoints).                                  *)
(***************************************************************************)
\* crypto.createHmac("sha256", secret).update(rawBody).digest("base64"):
\* a tag that determines, and is determined by, the key and the bytes
Hmac(secret, bytes) == <<"hmac-sha256", secret, bytes>>

\* Faulty variant of SignatureMismatch, used to test the properties below: only the key of the tag is compared, as when
\* the tag is computed over something other than the bytes received.
SignatureMismatchKeyOnly(generated, header) ==
  header = NoHeader \/ generated[2] # header[2]

\* generatedHmac !== hmacHeader
SignatureMismatch(generated, header) == generated # header

\* Faulty variant of VerifyStatus, used to test the properties below: verification is skipped when no secret is set.
VerifyStatusSkippedWithoutSecret(secret, d) ==
  IF ~d.isBuffer THEN 400
  ELSE IF secret = NoSecret THEN 0
  ELSE IF Hmac(secret, d.body) # d.hmacHeader THEN 401
  ELSE 0

\* What the handler has done with the body when the checks end with
\* status st, after what the middleware before it did (d.parsers): the MAC
\* is computed once the body is known to be a Buffer, compared when the key
\* is set, and the bytes are parsed when the comparison succeeded.
HandlerTrace(d, st) ==
  d.parsers \o
    ( CASE st = 400 -> <<>>
        [] st = 500 -> <<"createHmac">>
        [] st = 401 -> <<"createHmac", "mismatch">>
        [] st = 0 -> <<"createHmac", "match", "JSON.parse">> )

\* The checks that precede JSON.parse, in the order of the code: the status
\* the handler answers with, or 0 when the delivery is verified.
\* createHmac throws on an undefined key; the handler's catch answers 500.
VerifyStatus(secret, d) ==
  IF ~d.isBuffer THEN 400
  ELSE IF secret = NoSecret THEN 500
  ELSE IF SignatureMismatch(Hmac(secret, d.body), d.hmacHeader) THEN 401
  ELSE 0

(***************************************************************************)
(* POST /orders-create.                                                    *)
(***************************************************************************)
\* The bytes of an order event, and JSON.parse(rawBody.toString("utf8"))
OrderBytes(id, code) == <<"order", id, code, id, 10 * id>>

\* Bytes that are no JSON text (JSON.parse throws a SyntaxError), and the
\* bytes of an order event without an id or without a created_at
GarbageOrder == <<"garbage", 0, NoCode, 0, 0>>
GarbageShop == <<"garbage", "">>
OrderBytesWithoutId(code) == <<"order", NullInt, code, 1, 10>>
OrderBytesWithoutDate(id, code) == <<"order", id, code, NullInt, 10 * id>>

IsJson(bytes) == bytes[1] # "garbage"

JsonParseOrder(bytes) ==
  [id |-> bytes[2],
   discount_codes |-> IF bytes[3] = NoCode THEN <<>>
                      ELSE <<[code |-> bytes[3]]>>,
   created_at |-> bytes[4],
   total_price |-> bytes[5]]

\* order.discount_codes?.[0]?.code
FirstCode(order) ==
  IF order.discount_codes = <<>> THEN NoCode ELSE order.discount_codes[1].code

\* trace: what has been done with the request body, in order
IdleHook ==
  [pc |-> "idle", status |-> 0, target |-> 0,
   orderId |-> NullInt, createdAt |-> NullInt, total |-> NullInt,
   trace |-> <<>>]

HookResponded(status) == [IdleHook EXCEPT !.pc = "done", !.status = status]

\* Verification, JSON.parse, code extraction and prisma.discount.findUnique.
\* A verified delivery whose code is in the ledger waits for the update;
\* order.id.toString() throws when the order has no id, before the update
\* is sent.
OrdersCreateReceive(h, d) ==
  /\ hook[h].pc \in {"idle", "done"}
  /\ LET st == VerifyStatus(env.SHOPIFY_API_SECRET, d)
         order == JsonParseOrder(d.body)
         id == FindUniqueByCode(ledger, FirstCode(order))
         next ==
           IF st # 0 THEN HookResponded(st)
           ELSE IF ~IsJson(d.body) THEN HookResponded(500)
           ELSE IF FirstCode(order) = NoCode THEN HookResponded(200)
           ELSE IF id = 0 THEN HookResponded(200)
           ELSE IF order.id = NullInt THEN HookResponded(500)
           ELSE [IdleHook EXCEPT !.pc = "update", !.target = id,
                   !.orderId = order.id,
                   !.createdAt = order.created_at,
                   !.total = order.total_price]
     IN hook' = [hook EXCEPT ![h] =
                   [next EXCEPT !.trace = HandlerTrace(d, st)]]
  /\ UNCHANGED <<env, shops, settings, ledger, req, applied, now, gen, sync>>

\* Faulty variant of Redeem, used to test the properties below: the order
\* id is written by a second update that is never sent.
RedeemTimestampOnly(row, h) ==
  [row EXCEPT !.redeemedAt = h.createdAt, !.orderAmount = h.total]

\* Faulty variant of Redeem, used to test the properties below: a record that is redeemed again is deactivated.
RedeemDeactivatingReused(row, h) ==
  [row EXCEPT !.redeemedAt = h.createdAt,
              !.orderId = h.orderId,
              !.orderAmount = h.total,
              !.active = (row.redeemedAt = NullInt)]

\* data of prisma.discount.update({ where: { id }, data })
Redeem(row, h) ==
  [row EXCEPT !.redeemedAt = h.createdAt,
              !.orderId = h.orderId,
              !.orderAmount = h.total]

\* The update resolves.  new Date(undefined) is an Invalid Date, which the
\* database client refuses: an order without created_at is never written.
OrdersCreateUpdate(h) ==
  /\ hook[h].pc = "update"
  /\ hook[h].createdAt # NullInt
  /\ ledger' = [ledger EXCEPT ![hook[h].target] = Redeem(@, hook[h])]
  /\ applied' = [applied EXCEPT ![hook[h].target] = <<@[2], hook[h].orderId>>]
  /\ hook' = [hook EXCEPT ![h] =
                [HookResponded(200) EXCEPT !.trace = hook[h].trace]]
  /\ UNCHANGED <<env, shops, settings, req, now, gen, sync>>

\* prisma.discount.update rejects (the database fails): nothing is written
\* and the handler's catch answers 500.
OrdersCreateUpdateFails(h) ==
  /\ hook[h].pc = "update"
  /\ hook' = [hook EXCEPT ![h] =
                [HookResponded(500) EXCEPT !.trace = hook[h].trace]]
  /\ UNCHANGED <<env, shops, settings, ledger, req, applied, now, gen, sync>>

(***************************************************************************)
(* POST /app-uninstalled.                                                  *)
(***************************************************************************)
ShopBytes(domain) == <<"shop", domain>>

JsonParseShop(bytes) == [myshopify_domain |-> bytes[2]]

\* data of prisma.shop.update in appUninstalledHandler
UninstallRow(row) ==
  [row EXCEPT !.installed = FALSE, !.uninstalledAt = 1, !.accessToken = ""]

\* appUninstalledHandler: prisma.shop.update where shopDomain.  The update
\* is rejected when no row has the domain, and the database may reject it
\* otherwise (the Shop table of the migrations declares accessToken NOT
\* NULL); the handler's own catch logs a rejection and returns normally.
AppUninstalled(domain, accepted) ==
  IF domain \in DbShops /\ accepted
  THEN [shops EXCEPT ![domain] = UninstallRow(@)]
  ELSE shops

UninstallReceive(h, d, accepted) ==
  /\ hook[h].pc \in {"idle", "done"}
  /\ LET st == VerifyStatus(env.SHOPIFY_WEBHOOK_SECRET, d)
         answer(status) ==
           [hook EXCEPT ![h] =
              [HookResponded(status) EXCEPT !.trace = HandlerTrace(d, st)]]
     IN
       IF st # 0
       THEN /\ hook' = answer(st)
            /\ UNCHANGED shops
       ELSE IF ~IsJson(d.body)
       THEN /\ hook' = answer(500)
            /\ UNCHANGED shops
       ELSE /\ shops' = AppUninstalled(JsonParseShop(d.body).myshopify_domain,
                                       accepted)
            /\ hook' = answer(200)
  /\ UNCHANGED <<env, settings, ledger, req, applied, now, gen, sync>>

(***************************************************************************)
(* Inputs of the webhook endpoints.                                        *)
(***************************************************************************)
\* What a webhook handler sees of a request: req.body is a Buffer of the
\* bytes received or not, the bytes, the X-Shopify-Hmac-Sha256 header, and
\* the parsers that handled the body before the handler.
Delivery(raw, body, header) ==
  [isBuffer |-> raw, body |-> body, hmacHeader |-> header,
   parsers |-> IF raw THEN <<"express.raw">> ELSE <<>>]

\* An HTTP request as the application receives it: the segments of
\* req.originalUrl, the Content-Type, the bytes of the body, the header
HttpRequest(url, contentType, body, header) ==
  [url |-> url, contentType |-> contentType, body |-> body, header |-> header]

\* s.startsWith(prefix), on paths as sequences of segments
StartsWith(s, prefix) ==
  Len(s) >= Len(prefix) /\ SubSeq(s, 1, Len(prefix)) = prefix

\* Faulty variant of JsonParserRuns, used to test the properties below:
\* express.json() is installed for every path.
JsonParserRunsEverywhere(url) == TRUE

\* The application-level middleware: express.json() runs unless
\* req.originalUrl.startsWith("/api/webhooks")
JsonParserRuns(url) == ~StartsWith(url, <<"api", "webhooks">>)

\* The body parsers before a webhook handler.  express.json() parses a body
\* of Content-Type application/json and leaves an object in req.body;
\* express.raw({ type: "application/json" }) leaves a Buffer of the bytes
\* when the type matches and the body has not been parsed already;
\* otherwise req.body is an empty object.
Upstream(q) ==
  LET isJsonType == q.contentType = "application/json"
      parsed == JsonParserRuns(q.url) /\ isJsonType
  IN [isBuffer |-> isJsonType /\ ~parsed,
      body |-> q.body, hmacHeader |-> q.header,
      parsers |-> IF parsed THEN <<"express.json">>
                  ELSE IF isJsonType THEN <<"express.raw">> ELSE <<>>]

OrderBodies == { OrderBytes(o, c) : o \in Orders, c \in Codes \cup {NoCode} }

ShopBodies == { ShopBytes(s) : s \in {"s1", "sx"} }

\* The deliveries of the events `bodies`, which the platform signs with
\* `key`: each signed over the bytes delivered; and, for the events
\* `forged`, signed with another key, signed over the bytes of another event
\* (the body was tampered with), unsigned, and delivered as something that
\* is no Buffer.
DeliveriesOf(bodies, forged, key, otherKey) ==
  { Delivery(TRUE, b, Hmac(key, b)) : b \in bodies }
  \cup { Delivery(TRUE, b, Hmac(otherKey, b)) : b \in forged }
  \cup { Delivery(TRUE, b, Hmac(key, CHOOSE b2 \in bodies : b2 # b)) :
           b \in forged }
  \cup { Delivery(TRUE, b, NoHeader) : b \in forged }
  \cup { Delivery(FALSE, b, Hmac(key, b)) : b \in forged }

OrderDeliveries ==
  DeliveriesOf(OrderBodies, {OrderBytes(1, 1), OrderBytes(1, NoCode)},
               "k1", "k2")

UninstallDeliveries ==
  DeliveriesOf(ShopBodies, {ShopBytes("s1")}, "k2", "k1")

(***************************************************************************)
(* Inputs of POST /create.                                                 *)
(***************************************************************************)
Body(s, u, e, a, c, m) ==
  [shopDomain |-> s, userId |-> u, email |-> e, amount |-> a,
   expiryDays |-> Undefined, oneTimeUse |-> Undefined,
   allowedCountries |-> c, allowedMemberTypes |-> m]

ValidBodies ==
  { Body("s1", u, "e", Num(20), c, m) :
      u \in Users, c \in {{}, {"US"}}, m \in {{}, {"pro"}} }
  \cup { Body("s2", u, "e", Num(20), {}, {}) : u \in Users }
  \cup { Body("sx", "alice", "e", Num(20), {}, {}) }

InvalidBodies ==
  { Body("", "alice", "e", Num(20), {"US"}, {"pro"}),
    Body("s1", "", "e", Num(20), {"US"}, {"pro"}),
    Body("s1", "alice", "", Num(20), {"US"}, {"pro"}),
    Body("s1", "alice", "e", Num(0), {"US"}, {"pro"}),
    Body("s1", "alice", "e", Num(101), {"US"}, {"pro"}),
    Body("", "", "", Str(NaN), {}, {}) }

RequestBodies == ValidBodies \cup InvalidBodies

(***************************************************************************)
(* Initial states.                                                         *)
(***************************************************************************)
SettingsChoices ==
  { [s \in DbShops |-> IF s = "s1" THEN c ELSE NoSettings] :
      c \in {Cfg(1, {"US"}, {"pro"}), Cfg(2, {"US"}, {})} }

InitShops ==
  [s \in DbShops |-> [installed |-> TRUE, accessToken |-> "tok",
                      uninstalledAt |-> NullInt]]

InitCommon ==
  /\ env = [SHOPIFY_API_SECRET |-> "k1", SHOPIFY_WEBHOOK_SECRET |-> "k2",
           GOOGLE_SHEET_SECRET |-> ApiKey]
  /\ shops = InitShops
  /\ settings \in SettingsChoices
  /\ ledger = <<>>
  /\ applied = <<>>
  /\ now = 0

Init ==
  /\ InitCommon
  /\ req = [r \in 1 .. NReq |-> IdleReq]
  /\ hook = <<>>
  /\ gen = NoGen
  /\ sync = NoSync

IssuanceNext(bodies, codes, outcomes) ==
  \/ \E r \in DOMAIN req, body \in bodies : Begin(r, body)
  \/ \E r \in DOMAIN req : DupCheck(r)
  \/ \E r \in DOMAIN req : QuotaCheck(r)
  \/ \E r \in DOMAIN req, code \in codes, o \in outcomes :
       Publish(r, code, o, AllFound(r))
  \/ \E r \in DOMAIN req : Save(r)

\* Concurrent issuance requests of two users.
ConcurrentBodies == { b \in RequestBodies : b.userId # "carol" }

Next == IssuanceNext(ConcurrentBodies, Codes, PublishOutcomes)

Spec == Init /\ [][Next]_vars

\* Issuance requests handled one at a time.
InitSeq ==
  /\ InitCommon
  /\ req = <<IdleReq>>
  /\ hook = <<>>
  /\ gen = NoGen
  /\ sync = NoSync

NextSeq == IssuanceNext(RequestBodies, Codes, PublishOutcomes)

SpecSeq == InitSeq /\ [][NextSeq]_vars

\* Issuance requests with every combination of violated validation rules.
ValidationBodies ==
  { Body(s, u, e, a, {"US"}, {"pro"}) :
      s \in {"", "s1"}, u \in {"", "alice"}, e \in {"", "e"},
      a \in {Str(NaN), Undefined, JsNull, JsTrue, Num(-5), Num(0), Num(1),
             Str(50), Num(100), Num(101)} }

NextValidate == IssuanceNext(ValidationBodies, Codes, {"ok", "http"})

SpecValidate == InitSeq /\ [][NextValidate]_vars

\* Issuance requests with and without an expiry-days override, next to
\* saves of the shop's settings, over two days.
ExpiryOverrides ==
  {Undefined, JsNull, Num(1), Num(7), Num(365), Num(0), Num(-5), Num(400),
   Str(NaN)}

ExpiryBodies ==
  { [Body("s1", u, "e", Num(20), {"US"}, {"pro"}) EXCEPT !.expiryDays = d] :
      u \in {"alice", "bob"}, d \in ExpiryOverrides }

SettingsInputs ==
  { [maxDiscounts |-> Num(2), expiryDays |-> e, categories |-> <<"shoes">>,
     oneTimeUse |-> JsTrue,
     allowedCountries |-> {"US"}, allowedMemberTypes |-> {}] :
      e \in {JsNull, Num(0), Num(14), Num(-5)} }

InitExpiry ==
  /\ InitCommon
  /\ settings["s1"].maxDiscounts = 2
  /\ req = <<IdleReq>>
  /\ hook = <<>>
  /\ gen = NoGen
  /\ sync = NoSync

NextExpiry ==
  \/ IssuanceNext(ExpiryBodies, Codes, {"ok"})
  \/ \E input \in SettingsInputs : SaveSettings("s1", input)
  \/ Tick

SpecExpiry == InitExpiry /\ [][NextExpiry]_vars

\* Two concurrent issuance requests, of one shop or of two, whose creation
\* calls succeed.
PairBodies ==
  { Body("s1", "alice", "e", Num(20), {"US"}, {"pro"}),
    Body("s1", "bob", "e", Num(20), {"US"}, {"pro"}),
    Body("s2", "alice", "e", Num(20), {}, {}) }

InitPair ==
  /\ InitCommon
  /\ req = <<IdleReq, IdleReq>>
  /\ hook = <<>>
  /\ gen = NoGen
  /\ sync = NoSync

NextPair == IssuanceNext(PairBodies, Codes, {"ok"})

SpecPair == InitPair /\ [][NextPair]_vars

\* Three concurrent issuance requests for the shop with quota 1.
RaceBodies == { Body("s1", u, "e", Num(20), {"US"}, {"pro"}) : u \in Users }

InitRace ==
  /\ InitCommon
  /\ settings["s1"].maxDiscounts = 1
  /\ req = <<IdleReq, IdleReq, IdleReq>>
  /\ hook = <<>>
  /\ gen = NoGen
  /\ sync = NoSync

\* one generator output per request, so that no insert fails on the code
RaceCodes == 1 .. 3

NextRace == IssuanceNext(RaceBodies, RaceCodes, {"ok"})

SpecRace == InitRace /\ [][NextRace]_vars

\* One webhook delivery at a time, next to one issuance request at a time.
EnvChoices ==
  { [SHOPIFY_API_SECRET |-> "k1", SHOPIFY_WEBHOOK_SECRET |-> "k2",
           GOOGLE_SHEET_SECRET |-> ApiKey],
    [SHOPIFY_API_SECRET |-> NoSecret, SHOPIFY_WEBHOOK_SECRET |-> NoSecret,
     GOOGLE_SHEET_SECRET |-> ApiKey] }

HookBodies ==
  { Body(s, "alice", "e", Num(20), {"US"}, {"pro"}) : s \in DbShops }

InitHooks ==
  /\ env \in EnvChoices
  /\ shops = InitShops
  /\ settings \in SettingsChoices
  /\ settings["s1"].maxDiscounts = 1
  /\ ledger = <<>>
  /\ applied = <<>>
  /\ now = 0
  /\ req = <<IdleReq>>
  /\ hook = <<IdleHook>>
  /\ gen = NoGen
  /\ sync = NoSync

NextHooks ==
  \/ IssuanceNext(HookBodies, Codes, {"ok", "throw"})
  \/ \E h \in DOMAIN hook, d \in OrderDeliveries : OrdersCreateReceive(h, d)
  \/ \E h \in DOMAIN hook : OrdersCreateUpdate(h)
  \/ \E h \in DOMAIN hook, d \in UninstallDeliveries, ok \in BOOLEAN :
       UninstallReceive(h, d, ok)

SpecHooks == InitHooks /\ [][NextHooks]_vars

\* One issuance request at a time, whose creation call the platform
\* accepts, confirming the code it was sent or a normalized one.
NextNorm == IssuanceNext(HookBodies, Codes, AcceptedOutcomes)

SpecNorm == InitSeq /\ [][NextNorm]_vars

\* Issuance requests whose magnitude is a number or a numeric string and
\* whose expiry-days override is absent or above the range, and the plain
\* request of a second user, next to saves of the shop's settings, over the
\* days of the clock.
RoundBodies ==
  { [Body("s1", "alice", "e", a, {"US"}, {"pro"}) EXCEPT !.expiryDays = d] :
      a \in {Num(20), Str(50)}, d \in {Undefined, Num(400)} }
  \cup { Body("s1", "bob", "e", Num(20), {"US"}, {"pro"}) }

RoundSettings == { i \in SettingsInputs : i.expiryDays \in {JsNull, Num(14)} }

NextRound ==
  \/ IssuanceNext(RoundBodies, Codes, {"ok"})
  \/ \E input \in RoundSettings : SaveSettings("s1", input)
  \/ Tick

SpecRound == InitExpiry /\ [][NextRound]_vars

\* Requests to the webhook endpoints as the application receives them.
\* The router is mounted at /api/webhooks, and the framework matches the
\* mount path without regard to case.
WebhookUrl(endpoint) == <<"api", "webhooks", endpoint>>
OtherCaseUrl(endpoint) == <<"API", "webhooks", endpoint>>

Signed(url, body, key) ==
  HttpRequest(url, "application/json", body, Hmac(key, body))

\* Order events the platform signs (with and without a code, an id, a
\* created_at; bytes that are no JSON), and requests that are not what the
\* platform sent: signed with another key, signed over other bytes, of
\* another content type, and to the path spelled in another case.
OrderRequests ==
  { Signed(WebhookUrl("orders-create"), b, "k1") :
      b \in OrderBodies
            \cup { GarbageOrder, OrderBytesWithoutId(1),
                   OrderBytesWithoutId(NoCode), OrderBytesWithoutDate(2, 1) } }
  \cup { Signed(WebhookUrl("orders-create"), OrderBytes(1, 1), "k2"),
         HttpRequest(WebhookUrl("orders-create"), "application/json",
                     OrderBytes(1, 1), Hmac("k1", OrderBytes(2, 1))),
         HttpRequest(WebhookUrl("orders-create"), "text/plain",
                     OrderBytes(1, 1), Hmac("k1", OrderBytes(1, 1))),
         Signed(OtherCaseUrl("orders-create"), OrderBytes(1, 1), "k1") }

UninstallRequests ==
  { Signed(WebhookUrl("app-uninstalled"), b, "k2") :
      b \in ShopBodies \cup {GarbageShop} }
  \cup { Signed(WebhookUrl("app-uninstalled"), ShopBytes("s1"), "k1"),
         HttpRequest(WebhookUrl("app-uninstalled"), "text/plain",
                     ShopBytes("s1"), Hmac("k2", ShopBytes("s1"))),
         Signed(OtherCaseUrl("app-uninstalled"), ShopBytes("s1"), "k2") }

\* One order request at a time, next to one issuance request at a time.
InitOrders ==
  /\ InitCommon
  /\ settings["s1"].maxDiscounts = 2
  /\ req = <<IdleReq>>
  /\ hook = <<IdleHook>>
  /\ gen = NoGen
  /\ sync = NoSync

NextOrders ==
  \/ IssuanceNext(HookBodies, Codes, {"ok"})
  \/ \E h \in DOMAIN hook, q \in OrderRequests :
       OrdersCreateReceive(h, Upstream(q))
  \/ \E h \in DOMAIN hook : OrdersCreateUpdate(h)
  \/ \E h \in DOMAIN hook : OrdersCreateUpdateFails(h)

SpecOrders == InitOrders /\ [][NextOrders]_vars

\* Requests to both webhook endpoints.
NextIntake ==
  \/ NextOrders
  \/ \E h \in DOMAIN hook, q \in UninstallRequests, ok \in BOOLEAN :
       UninstallReceive(h, Upstream(q), ok)

SpecIntake == InitOrders /\ [][NextIntake]_vars

\* Issuance of discounts that expire after one day, the days of the
\* clock, and order events the platform signs.
ExpiringBodies ==
  { [Body("s1", u, "e", Num(20), {"US"}, {"pro"}) EXCEPT
       !.expiryDays = Num(1)] : u \in {"alice", "bob"} }

NextExpired ==
  \/ IssuanceNext(ExpiringBodies, Codes, {"ok"})
  \/ Tick
  \/ \E h \in DOMAIN hook, b \in OrderBodies :
       OrdersCreateReceive(h,
         Upstream(Signed(WebhookUrl("orders-create"), b, "k1")))
  \/ \E h \in DOMAIN hook : OrdersCreateUpdate(h)

SpecExpired == InitOrders /\ [][NextExpired]_vars

\* The generator applied to every display name of up to MaxNameLen
\* characters, with some outputs of crypto.randomBytes(3).
NameChars == {"a", "sz", " "}

Names == UNION { [1 .. n -> NameChars] : n \in 0 .. MaxNameLen }

RandomBytes == [1 .. 3 -> {10, 171}]

InitGenerate ==
  /\ InitCommon
  /\ settings["s1"].maxDiscounts = 2
  /\ req = <<IdleReq>>
  /\ hook = <<>>
  /\ gen \in { [name |-> n, code |-> <<>>] : n \in Names }
  /\ sync = NoSync

NextGenerate == \E bytes \in RandomBytes : Generate(bytes)

SpecGenerate == InitGenerate /\ [][NextGenerate]_vars

\* One issuance request at a time for a shop whose settings list two
\* category handles, each lookup returning a collection, none, or failing.
LookupSettings ==
  [s \in DbShops |->
     IF s = "s1"
     THEN [Cfg(2, {"US"}, {}) EXCEPT !.categories = <<"shoes", "hats">>]
     ELSE NoSettings]

InitLookup ==
  /\ env = [SHOPIFY_API_SECRET |-> "k1", SHOPIFY_WEBHOOK_SECRET |-> "k2",
           GOOGLE_SHEET_SECRET |-> ApiKey]
  /\ shops = InitShops
  /\ settings = LookupSettings
  /\ ledger = <<>>
  /\ applied = <<>>
  /\ now = 0
  /\ req = <<IdleReq>>
  /\ hook = <<>>
  /\ gen = NoGen
  /\ sync = NoSync

NextLookup ==
  \/ \E r \in DOMAIN req, body \in PairBodies : Begin(r, body)
  \/ \E r \in DOMAIN req : DupCheck(r)
  \/ \E r \in DOMAIN req : QuotaCheck(r)
  \/ \E r \in DOMAIN req, code \in Codes, o \in {"ok", "http"} :
       \E results \in [1 .. Len(req[r].categories) -> LookupResults] :
         Publish(r, code, o, results)
  \/ \E r \in DOMAIN req : Save(r)

SpecLookup == InitLookup /\ [][NextLookup]_vars

\* Issuance and redemption next to the requests of the spreadsheet sync:
\* GET /unsynced and POST /sync-ack with a code, with and without the key.
NextSync ==
  \/ IssuanceNext(HookBodies, Codes, {"ok"})
  \/ \E h \in DOMAIN hook, b \in OrderBodies :
       OrdersCreateReceive(h,
         Upstream(Signed(WebhookUrl("orders-create"), b, "k1")))
  \/ \E h \in DOMAIN hook : OrdersCreateUpdate(h)
  \/ \E token \in {ApiKey, "other", ""} :
       \/ DiscountsRequest("GET /unsynced", NoCode, token)
       \/ \E code \in Codes : DiscountsRequest("POST /sync-ack", code, token)

SpecSync == InitOrders /\ [][NextSync]_vars

\* Requests to both webhook endpoints next to the issuance requests of
\* one user.
NextParsers ==
  \/ IssuanceNext({Body("s1", "alice", "e", Num(20), {"US"}, {"pro"})},
                  Codes, {"ok"})
  \/ \E h \in DOMAIN hook, q \in OrderRequests :
       OrdersCreateReceive(h, Upstream(q))
  \/ \E h \in DOMAIN hook : OrdersCreateUpdate(h)
  \/ \E h \in DOMAIN hook, q \in UninstallRequests, ok \in BOOLEAN :
       UninstallReceive(h, Upstream(q), ok)

SpecParsers == InitOrders /\ [][NextParsers]_vars

\* Issuance requests with the one-time-use flag true, false and absent,
\* next to saves of the shop's settings with the flag set and cleared.
UsageBodies ==
  { [Body("s1", u, "e", Num(20), {"US"}, {"pro"}) EXCEPT !.oneTimeUse = f] :
      u \in {"alice", "bob"}, f \in {Undefined, JsTrue, JsFalse} }

UsageSettings ==
  { [maxDiscounts |-> Num(2), expiryDays |-> JsNull,
     categories |-> <<"shoes">>, oneTimeUse |-> f,
     allowedCountries |-> {"US"}, allowedMemberTypes |-> {}] :
      f \in {JsTrue, JsFalse} }

NextUsage ==
  \/ IssuanceNext(UsageBodies, Codes, {"ok"})
  \/ \E input \in UsageSettings : SaveSettings("s1", input)

SpecUsage == InitExpiry /\ [][NextUsage]_vars

\* Issuance requests with country lists that are empty, inside, outside and
\* across the allow-list, and no array, for a shop whose settings are saved
\* with and without an allow-list and for a shop without settings.
CountryBodies ==
  { Body(s, u, "e", Num(20), c, {"pro"}) :
      s \in DbShops, u \in {"alice", "bob"},
      c \in {{}, {"US"}, {"DE"}, {"DE", "US"}, NotArray({"US"})} }

CountrySettings ==
  { [maxDiscounts |-> Num(2), expiryDays |-> JsNull,
     categories |-> <<"shoes">>, oneTimeUse |-> JsTrue,
     allowedCountries |-> c, allowedMemberTypes |-> {}] :
      c \in {{}, {"US", "CA"}} }

NextCountry ==
  \/ IssuanceNext(CountryBodies, Codes, {"ok"})
  \/ \E input \in CountrySettings : SaveSettings("s1", input)

SpecCountry == InitSeq /\ [][NextCountry]_vars

\* Issuance whose ledger insert may be rejected by the database.
NextInsert ==
  \/ IssuanceNext(PairBodies, Codes, {"ok"})
  \/ \E r \in DOMAIN req : SaveFails(r)

SpecInsert == InitSeq /\ [][NextInsert]_vars

\* The request q as the platform sends it for an event of the shop
\* `origin`: the X-Shopify-Shop-Domain header names the shop.  The signature
\* is made with the app's secret, which is the same for every shop.
FromShop(q, origin) ==
  [url |-> q.url, contentType |-> q.contentType, body |-> q.body,
   header |-> q.header, shopDomain |-> origin]

\* Signed order events of both shops.
OriginRequests ==
  { FromShop(Signed(WebhookUrl("orders-create"), b, "k1"), s) :
      b \in OrderBodies, s \in DbShops }

NextOrigin ==
  \/ IssuanceNext(HookBodies, Codes, {"ok"})
  \/ \E h \in DOMAIN hook, q \in OriginRequests :
       OrdersCreateReceive(h, Upstream(q))
  \/ \E h \in DOMAIN hook : OrdersCreateUpdate(h)
  \/ \E h \in DOMAIN hook : OrdersCreateUpdateFails(h)

SpecOrigin == InitOrders /\ [][NextOrigin]_vars

\* Issuance requests with the configured key, another key and no key, to a
\* server whose key is configured and to one whose key is unset.
InitApiKey ==
  /\ \E key \in {ApiKey, NoSecret} :
       env = [SHOPIFY_API_SECRET |-> "k1", SHOPIFY_WEBHOOK_SECRET |-> "k2",
              GOOGLE_SHEET_SECRET |-> key]
  /\ shops = InitShops
  /\ settings \in SettingsChoices
  /\ ledger = <<>>
  /\ applied = <<>>
  /\ now = 0
  /\ req = <<IdleReq>>
  /\ hook = <<>>
  /\ gen = NoGen
  /\ sync = NoSync

ApiKeyTokens == {ApiKey, "other", ""}

NextApiKey ==
  \/ \E r \in DOMAIN req, body \in PairBodies, token \in ApiKeyTokens :
       CreateRequest(r, body, token)
  \/ \E r \in DOMAIN req : DupCheck(r)
  \/ \E r \in DOMAIN req : QuotaCheck(r)
  \/ \E r \in DOMAIN req, code \in Codes, o \in {"ok", "http"} :
       Publish(r, code, o, AllFound(r))
  \/ \E r \in DOMAIN req : Save(r)

SpecApiKey == InitApiKey /\ [][NextApiKey]_vars

(***************************************************************************)
(* Properties.                                                             *)
(***************************************************************************)
Rows == 1 .. Len(ledger)

ShopCount(domain) == CountByShop(ledger, ShopId(domain))

\* C1: of two concurrent issuance requests for the same (shop, user) pair
\* that pass validation and eligibility, exactly one completes with success
\* and the other receives 409: two requests of one pair never both succeed.
\* (Checked under Spec; the handler answers success with res.json, 200.)
C1_ExactlyOneSucceeds ==
  \A r1, r2 \in DOMAIN req :
    ( /\ r1 # r2
      /\ req[r1].pc = "done" /\ req[r2].pc = "done"
      /\ req[r1].shopDomain = req[r2].shopDomain
      /\ req[r1].userId = req[r2].userId
      /\ req[r1].status = 200 )
    => req[r2].status # 200

\* C2: in every reachable ledger state there is at most one active
\* DiscountRecord for each (shop, user) pair.  (Checked under Spec.)
C2_OneActivePerUser ==
  \A i, j \in Rows :
    ( /\ i # j
      /\ ledger[i].active /\ ledger[j].active
      /\ ledger[i].shopId = ledger[j].shopId )
    => ledger[i].userId # ledger[j].userId

\* C7: for every shop whose configured quota is non-null, the number of
\* DiscountRecords of the shop is at most the quota.  (Checked under Spec.)
C7_QuotaNeverExceeded ==
  \A s \in DbShops :
    settings[s].maxDiscounts # NullInt
      => ShopCount(s) <= settings[s].maxDiscounts

\* C8: under concurrent issuance requests the number of DiscountRecords of
\* a shop exceeds its quota by at most one.  (Checked under SpecRace.)
C8_AtMostOneOverQuota ==
  \A s \in DbShops :
    settings[s].maxDiscounts # NullInt
      => ShopCount(s) <= settings[s].maxDiscounts + 1

\* The redemption fields of row i are those of the order event `id`
RedeemedBy(row, id) ==
  /\ row.orderId = id
  /\ row.redeemedAt = JsonParseOrder(OrderBytes(id, row.code)).created_at
  /\ row.orderAmount = JsonParseOrder(OrderBytes(id, row.code)).total_price

\* C3: delivering the identical verified order-created webhook twice for a
\* code in the ledger leaves the ledger in the state it had after the first
\* delivery, with the redemption timestamp set, and the second delivery is
\* answered 200: a verified delivery of the event last applied to its
\* record is not answered with an error, and its update changes nothing.
C3_RedeliveryIsNoOp ==
  [][ \A h \in DOMAIN hook :
        /\ \A d \in OrderDeliveries :
             LET order == JsonParseOrder(d.body)
                 id == FindUniqueByCode(ledger, FirstCode(order))
             IN ( /\ OrdersCreateReceive(h, d)
                  /\ VerifyStatus(env.SHOPIFY_API_SECRET, d) = 0
                  /\ FirstCode(order) # NoCode
                  /\ id # 0
                  /\ applied[id][2] = order.id )
                => hook'[h].pc = "update" /\ hook'[h].target = id
        /\ ( /\ OrdersCreateUpdate(h)
             /\ applied[hook[h].target][2] = hook[h].orderId )
           => /\ ledger' = ledger
              /\ ledger'[hook[h].target].redeemedAt # NullInt
              /\ hook'[h].pc = "done" /\ hook'[h].status = 200
    ]_vars

\* C3 witness: the same order event has been applied twice in a row to one
\* record, the record is redeemed by it and the delivery was answered 200.
C3_Witness ==
  \E i \in Rows, h \in DOMAIN hook :
    /\ applied[i][1] # NullInt
    /\ applied[i][1] = applied[i][2]
    /\ RedeemedBy(ledger[i], applied[i][2])
    /\ hook[h].pc = "done" /\ hook[h].status = 200

\* C4: once a DiscountRecord has redeemedAt set, no later step changes its
\* redeemedAt, orderId or orderAmount.  (Checked under SpecHooks.)
C4_RedemptionWrittenOnce ==
  [][ \A i \in Rows :
        ledger[i].redeemedAt # NullInt
          => /\ ledger'[i].redeemedAt = ledger[i].redeemedAt
             /\ ledger'[i].orderId = ledger[i].orderId
             /\ ledger'[i].orderAmount = ledger[i].orderAmount
    ]_vars

\* C5: an order-created webhook whose body differs from the one its
\* signature was computed over is answered 401 and runs no reconciliation;
\* the same body with the signature base64(HMAC-SHA256(secret, raw body))
\* is accepted and reconciled: it is answered 200 at once when it names no
\* code or an unknown code, and otherwise goes on to update the record that
\* carries its code, which then holds the order's redemption fields.
C5_TamperedRejectedSignedAccepted ==
  [][ \A h \in DOMAIN hook :
        /\ \A d \in OrderDeliveries :
             LET secret == env.SHOPIFY_API_SECRET
                 order == JsonParseOrder(d.body)
                 id == FindUniqueByCode(ledger, FirstCode(order))
             IN ( /\ OrdersCreateReceive(h, d)
                  /\ d.isBuffer
                  /\ secret # NoSecret )
                => /\ ( \E b \in OrderBodies :
                          b # d.body /\ d.hmacHeader = Hmac(secret, b) )
                      => /\ hook'[h].pc = "done" /\ hook'[h].status = 401
                         /\ ledger' = ledger
                   /\ d.hmacHeader = Hmac(secret, d.body)
                      => IF id = 0
                         THEN hook'[h].pc = "done" /\ hook'[h].status = 200
                         ELSE /\ hook'[h].pc = "update"
                              /\ hook'[h].target = id
                              /\ hook'[h].orderId = order.id
        /\ OrdersCreateUpdate(h)
           => /\ RedeemedBy(ledger'[hook[h].target], hook[h].orderId)
              /\ hook'[h].status = 200
    ]_vars

\* C5 witness: a record has been redeemed through a verified delivery and a
\* later delivery has been answered 401.
C5_Witness ==
  \E i \in Rows, h \in DOMAIN hook :
    /\ ledger[i].redeemedAt # NullInt
    /\ hook[h].pc = "done" /\ hook[h].status = 401

\* The four rejected cases of a delivery d to an endpoint with this secret
Unverifiable(secret, d) ==
  \/ ~d.isBuffer
  \/ secret = NoSecret
  \/ d.hmacHeader = NoHeader
  \/ d.hmacHeader # Hmac(secret, d.body)

RejectStatus(secret, d) ==
  IF ~d.isBuffer THEN 400 ELSE IF secret = NoSecret THEN 500 ELSE 401

Holder(r) ==
  \E i \in Rows : /\ ledger[i].shopId = ShopId(req[r].shopDomain)
                  /\ ledger[i].userId = req[r].userId

\* Request slot r is past validation and the allow-lists, has not been
\* answered, and its shop has quota q and holds at least q records
AtFullShop(r, q) ==
  /\ req[r].pc \in {"dup", "count"}
  /\ settings[req[r].shopDomain].maxDiscounts = q
  /\ ShopCount(req[r].shopDomain) >= q

\* C9 as claimed: for a shop with quota 2 that holds two DiscountRecords,
\* every further sequential issuance request is answered 429, whichever
\* user makes it: it is never answered with another status and never goes
\* on to publish.
C9_FullShopAlways429 ==
  [][ \A r \in DOMAIN req :
        AtFullShop(r, 2)
          => /\ req'[r].pc \in {"dup", "count", "done"}
             /\ req'[r].pc = "done" => req'[r].status = 429
    ]_vars

\* C9 amended: for a shop with quota 2 that holds two DiscountRecords,
\* every further sequential issuance request that passes validation and the
\* country and member-type allow-lists is answered 409 when its user holds
\* a record of the shop and 429 otherwise; it never goes on to publish.
C9_FullShop409Or429 ==
  [][ \A r \in DOMAIN req :
        ( AtFullShop(r, 2) /\ req'[r] # req[r] )
          => IF Holder(r)
             THEN req'[r].pc = "done" /\ req'[r].status = 409
             ELSE \/ req[r].pc = "dup" /\ req'[r].pc = "count"
                  \/ /\ req[r].pc = "count"
                     /\ req'[r].pc = "done" /\ req'[r].status = 429
    ]_vars

\* C9 witness: the shop has quota 2 and two records, and a request of a
\* user without a record has been answered 429.
C9_Witness ==
  \E r \in DOMAIN req :
    /\ req[r].pc = "done" /\ req[r].status = 429
    /\ settings[req[r].shopDomain].maxDiscounts = 2
    /\ ShopCount(req[r].shopDomain) = 2
    /\ ~Holder(r)

\* C10: the issuance path checks the country allow-list, the member-type
\* allow-list, the duplicate (shop, user) and the quota in this order and
\* stops at the first failure: a valid request for a known shop that fails
\* an allow-list is answered 403 whatever the ledger holds; past the
\* allow-lists, a request whose user holds a record is answered 409 also
\* when the quota is reached; only a request whose user holds none is
\* answered 429 when the quota is reached; an answered request takes no
\* further step.
C10_ChecksInOrder ==
  [][ \A r \in DOMAIN req :
        /\ \A body \in RequestBodies :
             ( /\ Begin(r, body)
               /\ ValidationErrors(body) = <<>>
               /\ body.shopDomain \in DbShops )
             => LET cfg == settings[body.shopDomain] IN
                IF \/ /\ cfg.allowedCountries # {}
                      /\ body.allowedCountries \cap cfg.allowedCountries = {}
                   \/ /\ cfg.allowedMemberTypes # {}
                      /\ body.allowedMemberTypes \cap cfg.allowedMemberTypes = {}
                THEN req'[r].pc = "done" /\ req'[r].status = 403
                ELSE req'[r].pc = "dup"
        /\ ( req[r].pc = "dup" /\ req'[r] # req[r] )
           => IF Holder(r)
              THEN req'[r].pc = "done" /\ req'[r].status = 409
              ELSE req'[r].pc \in {"count", "publish"}
        /\ ( req[r].pc = "count" /\ req'[r] # req[r] )
           => IF ShopCount(req[r].shopDomain)
                   >= settings[req[r].shopDomain].maxDiscounts
              THEN req'[r].pc = "done" /\ req'[r].status = 429
              ELSE req'[r].pc = "publish"
        /\ ( req[r].pc = "done" /\ req'[r] # req[r] )
           => \E body \in RequestBodies : Begin(r, body)
    ]_vars

\* C10 witness: the shop has quota 1 and one record, held by the user of a
\* request that fails both the duplicate and the quota check; the request
\* has been answered 409.
C10_Witness ==
  \E r \in DOMAIN req :
    /\ req[r].pc = "done" /\ req[r].status = 409
    /\ settings[req[r].shopDomain].maxDiscounts = 1
    /\ ShopCount(req[r].shopDomain) = 1
    /\ Holder(r)

\* The request of slot r has made no call to the platform
NoExternalCall(r) == r.lookups = 0 /\ r.creates = 0

\* The request of slot r ended in a validation, unknown-shop, not-eligible,
\* duplicate or quota outcome
Rejected(r) ==
  /\ r.pc = "done"
  /\ \/ r.status \in {404, 403, 409, 429}
     \/ r.status = 400 /\ r.errors # <<>>

\* C11: every issuance request that ends in a validation (400), unknown-shop
\* (404), not-eligible (403), duplicate (409) or quota (429) outcome has
\* made no call to the platform, neither a collection lookup nor a discount
\* creation, and has left the ledger unchanged: no step of a request that
\* is not yet past its checks changes the ledger or calls the platform.
C11_RejectedBeforeAnyCall ==
  [][ \A r \in DOMAIN req :
        /\ ( Rejected(req'[r]) /\ req'[r] # req[r] )
           => /\ NoExternalCall(req'[r])
              /\ req[r].pc \in {"idle", "done", "dup", "count"}
              /\ ledger' = ledger
        /\ ( req[r].pc \in {"dup", "count"} /\ req'[r] # req[r] )
           => /\ NoExternalCall(req[r])
              /\ ledger' = ledger
              /\ req'[r].pc = "done" => Rejected(req'[r])
    ]_vars

\* C11 witness: with a record in the ledger of a shop whose configuration
\* lists a category, a request has been answered 429 without any call.
C11_Witness ==
  \E r \in DOMAIN req :
    /\ req[r].pc = "done" /\ req[r].status = 429
    /\ req[r].categories # <<>>
    /\ NoExternalCall(req[r])
    /\ ShopCount(req[r].shopDomain) > 0

\* C12: if the discount-creation call of an issuance request fails in any
\* way (non-2xx status, malformed response, userErrors, thrown transport
\* error), the request is answered with an error at once and inserts no
\* DiscountRecord; every insert is made by a request whose creation call
\* was made and succeeded, and carries the code that call published.
C12_NoRecordWithoutPublish ==
  [][ /\ \A r \in DOMAIN req :
           /\ \A code \in Codes, o \in PublishOutcomes \ {"ok"} :
                Publish(r, code, o, AllFound(r))
                  => /\ req'[r].pc = "done"
                     /\ req'[r].status \in {502, 500, 400}
                     /\ ledger' = ledger
           /\ ( req'[r].pc = "save" /\ req[r].pc # "save" )
              => \E code \in Codes : Publish(r, code, "ok", AllFound(r))
           /\ ( req[r].pc = "done" /\ req'[r] # req[r] ) => ledger' = ledger
      /\ Len(ledger') > Len(ledger)
           => \E r \in DOMAIN req :
                /\ req[r].pc = "save" /\ req[r].creates = 1
                /\ Len(ledger') = Len(ledger) + 1
                /\ ledger'[Len(ledger')].code = req[r].code
                /\ ledger'[Len(ledger')].userId = req[r].userId
    ]_vars

\* C12 witness: a request whose creation call was made has been answered
\* 502, its user holds no record, and another request has inserted one.
C12_Witness ==
  \E r \in DOMAIN req :
    /\ req[r].pc = "done" /\ req[r].status = 502
    /\ req[r].creates = 1
    /\ ~Holder(r)
    /\ ledger # <<>>

\* C13: when the ledger insert of an issuance request fails because the
\* generated code already exists, the request generates a new code and
\* retries before an error is returned: the step at which the insert is
\* rejected for the first time does not answer the request.
C13_CollisionRetriedOnce ==
  [][ \A r \in DOMAIN req :
        ( /\ req[r].pc = "save"
          /\ CodeTaken(ledger, req[r].code)
          /\ req'[r] # req[r] )
        => req'[r].pc # "done"
    ]_vars

\* C14: within one issuance request the discount-creation call is made at
\* most once, and across requests it is never made twice for the same
\* (shop, user) pair: no two requests of one pair have both made the call.
\* (Checked under SpecRace, where every creation call succeeds.)
C14_PublishedOncePerPair ==
  /\ \A r \in DOMAIN req : req[r].creates <= 1
  /\ \A r1, r2 \in DOMAIN req :
       ( /\ r1 # r2
         /\ req[r1].shopDomain # ""
         /\ req[r1].shopDomain = req[r2].shopDomain
         /\ req[r1].userId = req[r2].userId
         /\ req[r1].creates = 1 )
       => req[r2].creates = 0

\* The magnitude x of a request is not numeric (absent, null, or a string
\* that spells no number; true counts as 1, as JavaScript coerces it), or
\* is <= 0, or is > 100
BadMagnitude(x) ==
  \/ x.t \in {"undefined", "null"}
  \/ x.t = "string" /\ x.v = NaN
  \/ x.v <= 0
  \/ x.v > 100

\* The validation rules a request body violates, and the message of each
ViolatedRules(body) ==
  { rule \in {"shopDomain", "userId", "email", "amount"} :
      CASE rule = "shopDomain" -> body.shopDomain = ""
        [] rule = "userId" -> body.userId = ""
        [] rule = "email" -> body.email = ""
        [] rule = "amount" -> BadMagnitude(body.amount) }

RuleMessage(rule) ==
  CASE rule = "shopDomain" -> "shopDomain required"
    [] rule = "userId" -> "userId required"
    [] rule = "email" -> "email required"
    [] rule = "amount" -> "amount must be 1-100 (percentage only)"

\* C15: validateDiscountPayload reports every violated field, not only the
\* first: for a body that violates k of the rules (missing shopDomain,
\* missing userId, missing email, bad amount) the error list of the answer
\* has exactly those k entries and the request is answered 400; a body that
\* violates none is not answered 400 by validation.
C15_EveryViolationReported ==
  [][ \A r \in DOMAIN req, body \in ValidationBodies :
        Begin(r, body)
          => LET errs == req'[r].errors IN
             /\ Len(errs) = Cardinality(ViolatedRules(body))
             /\ { errs[i] : i \in 1 .. Len(errs) }
                  = { RuleMessage(rule) : rule \in ViolatedRules(body) }
             /\ ViolatedRules(body) # {}
                  => req'[r].pc = "done" /\ req'[r].status = 400
             /\ ViolatedRules(body) = {} => req'[r].status # 400
    ]_vars

\* C15 witness: a request violating all four rules has been answered 400
\* with four errors, after a valid request has issued a code.
C15_Witness ==
  \E r \in DOMAIN req :
    /\ req[r].pc = "done" /\ req[r].status = 400
    /\ Len(req[r].errors) = 4
    /\ ledger # <<>>

\* C16: an issuance request whose magnitude is not numeric, is <= 0 or is
\* > 100 is answered 400 with the amount error and inserts nothing, so
\* every DiscountRecord of percentage kind has its magnitude in (0, 100].
C16_MagnitudeInRange ==
  [][ /\ \A r \in DOMAIN req, body \in ValidationBodies :
           ( /\ Begin(r, body)
             /\ BadMagnitude(body.amount) )
           => /\ req'[r].pc = "done" /\ req'[r].status = 400
              /\ \E i \in 1 .. Len(req'[r].errors) :
                   req'[r].errors[i] = RuleMessage("amount")
              /\ ledger' = ledger
      /\ \A i \in 1 .. Len(ledger') :
           ledger'[i].type = "percentage"
             => ledger'[i].amount > 0 /\ ledger'[i].amount <= 100
    ]_vars

\* C16 witness: a record with the largest magnitude, 100, is in the ledger
\* and a request has been answered 400 with the amount error only.
C16_Witness ==
  /\ \E i \in Rows : ledger[i].amount = 100
  /\ \E r \in DOMAIN req :
       /\ req[r].pc = "done" /\ req[r].status = 400
       /\ req[r].errors = <<RuleMessage("amount")>>

\* The request body carries an expiry-days override
HasOverride(body) == body.expiryDays.t \notin {"null", "undefined"}

\* C17: an issuance request that supplies an expiry-days override outside
\* [1, 365] is answered with a validation error; it does not go on to the
\* checks that lead to issuing a code.  (Checked under SpecExpiry.)
C17_OverrideOutOfRangeRejected ==
  [][ \A r \in DOMAIN req, body \in ExpiryBodies :
        ( /\ Begin(r, body)
          /\ HasOverride(body)
          /\ \/ body.expiryDays.v = NaN
             \/ body.expiryDays.v < 1
             \/ body.expiryDays.v > 365 )
        => req'[r].pc = "done" /\ req'[r].status = 400
    ]_vars

\* The expiry window C18 states for a request body and a configuration
ClaimedWindow(body, cfg) ==
  IF HasOverride(body) THEN body.expiryDays.v
  ELSE IF cfg.expiryDays # NullInt THEN cfg.expiryDays
  ELSE 30

\* C18: the expiry window used for an issued code is the request's
\* expiry-days override when present, otherwise the configuration's
\* expiryDays when non-null, otherwise 30 days; the published end time and
\* the ledger's expiresAt are both the issue time plus that window.
\* (Checked under SpecExpiry.)
C18_WindowFromOverrideConfigDefault ==
  [][ \A r \in DOMAIN req :
        /\ \A body \in ExpiryBodies :
             ( Begin(r, body) /\ req'[r].pc = "dup" )
             => req'[r].expiryDays
                  = ClaimedWindow(body, settings[body.shopDomain])
        /\ ( req'[r].pc = "publish" /\ req[r].pc # "publish" )
           => req'[r].endsAt = now + req[r].expiryDays
        /\ ( req[r].pc = "save" /\ Len(ledger') > Len(ledger) )
           => ledger'[Len(ledger')].expiresAt = req[r].endsAt
    ]_vars

\* C19: every DiscountRecord in the ledger has expiresAt strictly later
\* than createdAt, for every accepted request and every stored shop
\* configuration.  (Checked under SpecExpiry.)
C19_ExpiresAfterCreated ==
  \A i \in Rows : ledger[i].expiresAt > ledger[i].createdAt

\* C20: in every reachable ledger state no two DiscountRecords, of the same
\* shop or of different shops, have the same code, under any interleaving
\* of issuance requests.  (Checked under SpecPair: two concurrent requests
\* that may generate the same code.)
C20_CodesUnique ==
  \A i, j \in Rows : i # j => ledger[i].code # ledger[j].code

\* C20 witness: two concurrent requests generated the same code; one has
\* inserted its record, and the insert of the other was rejected (500).
C20_Witness ==
  \E r1, r2 \in DOMAIN req :
    /\ r1 # r2
    /\ req[r1].pc = "done" /\ req[r1].status = 200
    /\ req[r2].pc = "done" /\ req[r2].status = 500
    /\ req[r1].code # NoCode /\ req[r1].code = req[r2].code
    /\ \E i \in Rows : ledger[i].code = req[r1].code
    /\ Len(ledger) >= 2

\* C21: the code stored in the DiscountRecord of a successful issuance is
\* the code the platform returned in its confirmation, also when the
\* platform normalizes the requested code to a different string.
\* (Checked under SpecNorm.)
C21_LedgerStoresConfirmedCode ==
  [][ \A r \in DOMAIN req :
        ( Save(r) /\ Len(ledger') = Len(ledger) + 1 )
          => ledger'[Len(ledger')].code = req[r].confirmed
    ]_vars

\* The expiry days of the normalized request: the override when the body
\* has one, brought into 1..365; otherwise the shop's configured days;
\* otherwise the default.
NormalizedDays(body, cfg) ==
  IF body.expiryDays.t \notin {"null", "undefined"}
  THEN LET n == JsNumber(body.expiryDays) IN
         IF n = NaN \/ n < MinExpiryDays THEN MinExpiryDays
         ELSE IF n > MaxExpiryDays THEN MaxExpiryDays ELSE n
  ELSE IF cfg.expiryDays # NullInt THEN cfg.expiryDays
  ELSE DefaultExpiryDays

Genuine(q, secret) ==
  /\ SubSeq(q.url, 1, 2) = <<"api", "webhooks">>
  /\ q.contentType = "application/json"
  /\ q.header = Hmac(secret, q.body)

\* C23: a verified order-created webhook whose order carries no discount
\* code, or whose first discount code matches no DiscountRecord, is answered
\* with success (200) and leaves every ledger record unchanged.
\* (Checked under SpecOrders.)
C23_NoCodeOrUnknownCodeIsNoOp ==
  [][ \A h \in DOMAIN hook, q \in OrderRequests :
        ( /\ OrdersCreateReceive(h, Upstream(q))
          /\ Genuine(q, env.SHOPIFY_API_SECRET)
          /\ q.body[1] = "order"
          /\ \/ q.body[3] = NoCode
             \/ \A i \in Rows : ledger[i].code # q.body[3] )
        => /\ hook'[h].pc = "done" /\ hook'[h].status = 200
           /\ ledger' = ledger
    ]_vars

\* C23 witness: with records in the ledger, none of them redeemed, a
\* verified and parsed order event has been answered 200 at once.
C23_Witness ==
  \E h \in DOMAIN hook :
    /\ hook[h].pc = "done" /\ hook[h].status = 200
    /\ hook[h].trace = <<"express.raw", "createHmac", "match", "JSON.parse">>
    /\ ledger # <<>>
    /\ \A i \in Rows : ledger[i].redeemedAt = NullInt

\* C24: expired is a terminal state: a DiscountRecord whose expiresAt has
\* passed (now > expiresAt) and that is not yet redeemed is never
\* subsequently marked redeemed by an order-created webhook.
\* (Checked under SpecExpired.)
C24_ExpiredNeverRedeemed ==
  [][ \A i \in Rows :
        ( now > ledger[i].expiresAt /\ ledger[i].redeemedAt = NullInt )
          => ledger'[i].redeemedAt = NullInt
    ]_vars

\* The positions at which a whitespace-separated token of the name starts,
\* in ascending order
TokenStarts(name) ==
  { i \in DOMAIN name : ~IsSpace(name[i]) /\ (i = 1 \/ IsSpace(name[i - 1])) }

RECURSIVE Ascending(_)
Ascending(S) ==
  IF S = {} THEN <<>>
  ELSE LET m == CHOOSE x \in S : \A y \in S : x <= y
       IN <<m>> \o Ascending(S \ {m})

\* The uppercased characters of the name at the positions `starts`
RECURSIVE UpperAt(_, _)
UpperAt(name, starts) ==
  IF starts = <<>> THEN <<>>
  ELSE CharToUpperCase(name[Head(starts)]) \o UpperAt(name, Tail(starts))

\* code is PRC-<initials>-<six upper-case hex characters>
HasFormat(code, initials) ==
  /\ Len(code) = 4 + Len(initials) + 1 + 6
  /\ SubSeq(code, 1, 4) = <<"P", "R", "C", "-">>
  /\ SubSeq(code, 5, 4 + Len(initials)) = initials
  /\ code[5 + Len(initials)] = "-"
  /\ \A i \in 6 + Len(initials) .. Len(code) :
       code[i] \in {"0", "1", "2", "3", "4", "5", "6", "7", "8", "9",
                    "A", "B", "C", "D", "E", "F"}

\* C25 as claimed: for every display name, generateDiscountCode returns
\* PREFIX-INITIALS-SUFFIX where PREFIX is PRC, INITIALS is the uppercased
\* first character of each of at most the first 3 whitespace-separated
\* tokens of the name, or XX when the name has no tokens, and SUFFIX is 6
\* uppercase hex characters.  (Checked under SpecGenerate.)
C25_InitialsOfFirstThreeTokens ==
  gen.code # <<>>
    => LET starts == Ascending(TokenStarts(gen.name))
           first3 == SubSeq(starts, 1, IF Len(starts) < 3 THEN Len(starts) ELSE 3)
       IN HasFormat(gen.code,
                    IF starts = <<>> THEN <<"X", "X">>
                    ELSE UpperAt(gen.name, first3))

\* C25 amended: for every display name, generateDiscountCode returns
\* PREFIX-INITIALS-SUFFIX where PREFIX is PRC, INITIALS is the first 3
\* characters of the uppercased first characters of the whitespace-separated
\* tokens of the name joined together (the upper case of one character can
\* be two, so fewer than 3 tokens can fill it), or XX when the name has no
\* tokens, and SUFFIX is 6 uppercase hex characters.
\* (Checked under SpecGenerate.)
C25_FirstThreeCharactersOfInitials ==
  gen.code # <<>>
    => LET starts == Ascending(TokenStarts(gen.name))
           joined == UpperAt(gen.name, starts)
       IN HasFormat(gen.code,
                    IF starts = <<>> THEN <<"X", "X">>
                    ELSE SubSeq(joined, 1,
                                IF Len(joined) < 3 THEN Len(joined) ELSE 3))

\* C25 witness: a name of four tokens, the first starting with sharp s, has
\* been given the initials SSA and a suffix with a padded digit.
C25_Witness ==
  /\ Cardinality(TokenStarts(gen.name)) = 4
  /\ gen.code # <<>>
  /\ SubSeq(gen.code, 1, 10) = <<"P", "R", "C", "-", "S", "S", "A", "-", "0", "A">>

\* C26: a failure to resolve one category handle to a platform collection
\* id does not fail the issuance: that handle is skipped, the remaining
\* handles are still resolved, and the request goes on to publish and
\* persist the discount.  When a lookup fails and the creation call
\* succeeds, every handle has been looked up, the collection ids are those
\* of exactly the handles that were found, the failure was logged, and the
\* request goes on to the insert, which answers 200 with a new record
\* unless the code is taken.  (Checked under SpecLookup.)
C26_FailedLookupSkipped ==
  [][ \A r \in DOMAIN req :
        /\ \A code \in Codes :
             \A results \in [1 .. Len(req[r].categories) -> LookupResults] :
               ( /\ Publish(r, code, "ok", results)
                 /\ \E i \in DOMAIN results : results[i] = "error" )
               => LET found == { i \in DOMAIN results : results[i] = "found" }
                      gids == req'[r].gids
                  IN /\ req'[r].pc = "save"
                     /\ req'[r].lookups = Len(req[r].categories)
                     /\ req'[r].creates = req[r].creates + 1
                     /\ req'[r].warned >= 1
                     /\ Len(gids) = Cardinality(found)
                     /\ \A i \in found :
                          \E j \in DOMAIN gids :
                            gids[j] = Gid(req[r].categories[i])
        /\ ( /\ Save(r)
             /\ req[r].warned >= 1
             /\ \A i \in Rows : ledger[i].code # req[r].code )
           => /\ req'[r].pc = "done" /\ req'[r].status = 200
              /\ Len(ledger') = Len(ledger) + 1
              /\ ledger'[Len(ledger')].userId = req[r].userId
    ]_vars

\* C26 witness: a request whose first lookup failed and whose second was
\* resolved has been answered 200 and its user holds the new record.
C26_Witness ==
  \E r \in DOMAIN req :
    /\ req[r].pc = "done" /\ req[r].status = 200
    /\ req[r].warned = 1
    /\ req[r].gids = <<Gid("hats")>>
    /\ \E i \in Rows :
         ledger[i].code = req[r].code /\ ledger[i].userId = req[r].userId

\* C27: the system offers a mark-synced operation: after POST
\* /discounts/sync-ack with a code, that record's external-sync flag is true
\* and GET /discounts/unsynced, which returns exactly the records that are
\* redeemed and not yet synced, no longer returns it: a sync-ack request
\* with the key, for the code of a record, is answered with success and
\* leaves the record's flag set.  (Checked under SpecSync.)
C27_SyncAckMarksSynced ==
  [][ \A code \in Codes :
        ( /\ DiscountsRequest("POST /sync-ack", code, ApiKey)
          /\ \E i \in Rows : ledger[i].code = code )
        => /\ sync'.status = 200
           /\ \A i \in Rows : ledger[i].code = code
                               => ledger'[i].syncedToShopify
    ]_vars

\* C28: every webhook request receives exactly one response and no
\* exception escapes the handler: any error raised while verifying or
\* processing an order-created or app-uninstalled event (unparseable JSON,
\* missing order id, ledger failure) ends in a 500 response, and the event
\* is not retried internally: the step in which the error is raised ends
\* the request with status 500 and writes nothing.  The errors are bytes
\* that are no JSON, an order without id for a code in the ledger, a
\* rejected update of the record, and an update of the Shop row of a domain
\* that has none.  (Checked under SpecIntake.)
C28_EveryErrorAnswered500 ==
  [][ \A h \in DOMAIN hook :
        /\ \A q \in OrderRequests :
             ( /\ OrdersCreateReceive(h, Upstream(q))
               /\ Genuine(q, env.SHOPIFY_API_SECRET)
               /\ \/ q.body[1] = "garbage"
                  \/ /\ q.body[2] = NullInt
                     /\ \E i \in Rows : ledger[i].code = q.body[3] )
             => /\ hook'[h].pc = "done" /\ hook'[h].status = 500
                /\ ledger' = ledger
        /\ OrdersCreateUpdateFails(h)
             => /\ hook'[h].pc = "done" /\ hook'[h].status = 500
                /\ ledger' = ledger
        /\ \A q \in UninstallRequests :
             ( /\ \E ok \in BOOLEAN : UninstallReceive(h, Upstream(q), ok)
               /\ Genuine(q, env.SHOPIFY_WEBHOOK_SECRET)
               /\ \/ q.body[1] = "garbage"
                  \/ q.body[2] \notin DbShops )
             => /\ hook'[h].pc = "done" /\ hook'[h].status = 500
                /\ shops' = shops
    ]_vars

\* What C29 states of the trace t of a request q to an endpoint with this
\* secret
RawBeforeParse(q, secret, t) ==
  /\ StartsWith(q.url, <<"api", "webhooks">>)
       => \A i \in DOMAIN t : t[i] # "express.json"
  /\ \A i \in DOMAIN t :
       t[i] = "createHmac" => \A j \in 1 .. i - 1 : t[j] # "express.json"
  /\ (\E i \in DOMAIN t : t[i] = "match") <=> Genuine(q, secret)
  /\ \A i \in DOMAIN t :
       t[i] = "JSON.parse"
         => i > 2 /\ t[i - 1] = "match" /\ t[i - 2] = "createHmac"

\* C29: for every request under /api/webhooks, no JSON body parser runs
\* before the HMAC is computed: the signature is always verified over the
\* raw request bytes, and the body is parsed as JSON only after the
\* signature comparison has succeeded.  On both endpoints: a request under
\* /api/webhooks is never handled by express.json; whenever the MAC is
\* computed, no JSON parser ran before; the comparison succeeds exactly for
\* the requests that carry the MAC of the bytes they were sent with; and
\* JSON.parse runs only directly after a successful comparison.
\* (Checked under SpecParsers.)
C29_RawBytesBeforeParse ==
  [][ \A h \in DOMAIN hook :
        /\ \A q \in OrderRequests :
             OrdersCreateReceive(h, Upstream(q))
               => RawBeforeParse(q, env.SHOPIFY_API_SECRET, hook'[h].trace)
        /\ \A q \in UninstallRequests :
             ( \E ok \in BOOLEAN : UninstallReceive(h, Upstream(q), ok) )
               => RawBeforeParse(q, env.SHOPIFY_WEBHOOK_SECRET, hook'[h].trace)
    ]_vars

\* C29 witness: a record has been redeemed by a verified order event, and
\* a later request was answered 400 because express.json had parsed its
\* body (its path was spelled in another case) and no MAC was computed.
C29_Witness ==
  \E h \in DOMAIN hook, i \in Rows :
    /\ ledger[i].redeemedAt # NullInt
    /\ hook[h].pc = "done" /\ hook[h].status = 400
    /\ hook[h].trace = <<"express.json">>

\* C30: in every reachable ledger state each DiscountRecord has redeemedAt
\* and orderId either both null or both non-null; no operation, including a
\* webhook that fails midway, sets one without the other.
\* (Checked under SpecOrders.)
C30_RedeemedAtAndOrderIdTogether ==
  \A i \in Rows :
    (ledger[i].redeemedAt = NullInt) <=> (ledger[i].orderId = NullInt)

\* C30 witness: one record is redeemed, with both fields set, another is
\* not, and an order webhook has failed with 500 after its record was found
\* and its body parsed.
C30_Witness ==
  \E i, j \in Rows, h \in DOMAIN hook :
    /\ ledger[i].redeemedAt # NullInt /\ ledger[i].orderId # NullInt
    /\ ledger[j].redeemedAt = NullInt /\ ledger[j].orderId = NullInt
    /\ hook[h].pc = "done" /\ hook[h].status = 500
    /\ hook[h].trace = <<"express.raw", "createHmac", "match", "JSON.parse">>

\* Row `new` is row `old` but for its three redemption fields
SameButRedemption(old, new) ==
  [new EXCEPT !.redeemedAt = old.redeemedAt, !.orderId = old.orderId,
              !.orderAmount = old.orderAmount] = old

\* C31: an issuance request changes no existing DiscountRecord (it only
\* adds at most one new record), and an order-created webhook changes only
\* redeemedAt, orderId and orderAmount of the single record whose code
\* equals the order's first discount code, leaving every other record and
\* every other field unchanged; no operation deletes a record.  A step adds
\* at most one record at the end, and only as the insert of a request; the
\* record a webhook goes on to update is the one with the order's first
\* code; and a record that changes does so in the update of a webhook that
\* targets it, in its three redemption fields only.
\* (Checked under SpecOrders.)
C31_OnlyRedemptionFieldsChange ==
  [][ /\ Len(ledger') \in {Len(ledger), Len(ledger) + 1}
      /\ Len(ledger') = Len(ledger) + 1
           => /\ \E r \in DOMAIN req : req[r].pc = "save" /\ req'[r].pc = "done"
              /\ SubSeq(ledger', 1, Len(ledger)) = ledger
      /\ \A h \in DOMAIN hook, q \in OrderRequests :
           ( OrdersCreateReceive(h, Upstream(q)) /\ hook'[h].pc = "update" )
             => /\ q.body[3] # NoCode
                /\ ledger[hook'[h].target].code = q.body[3]
                /\ ledger' = ledger
      /\ \A i \in Rows :
           ledger'[i] # ledger[i]
             => /\ \E h \in DOMAIN hook :
                     /\ hook[h].pc = "update" /\ hook[h].target = i
                     /\ hook'[h].pc = "done"
                /\ SameButRedemption(ledger[i], ledger'[i])
                /\ \A j \in Rows \ {i} : ledger'[j] = ledger[j]
                /\ \A r \in DOMAIN req : req'[r] = req[r]
    ]_vars

\* C31 witness: of two records, one has been redeemed twice by webhooks and
\* the other, issued after the first redemption or before, is as created.
C31_Witness ==
  \E i, j \in Rows :
    /\ i # j
    /\ applied[i][1] # NullInt /\ applied[i][2] # NullInt
    /\ ledger[i].redeemedAt # NullInt /\ ledger[i].active
    /\ ledger[j] = NewDiscount(ledger[j].shopId, ledger[j].userId,
                               ledger[j].code, ledger[j].amount,
                               ledger[j].expiresAt, ledger[j].createdAt)

\* The effective one-time-use flag as C32 states it: the request's flag,
\* and the shop configuration's when the request omits it
EffectiveOneTimeUse(body, cfg) ==
  IF body.oneTimeUse.t = "undefined" THEN cfg.oneTimeUse
  ELSE Truthy(body.oneTimeUse)

\* C32: the usage limit of the published discount is 1 exactly when the
\* effective one-time-use flag is true, where a request that omits the flag
\* falls back to the shop configuration's oneTimeUse value (default true)
\* rather than to false.  (Checked under SpecUsage.)
C32_UsageLimitFromEffectiveFlag ==
  [][ \A r \in DOMAIN req :
        /\ \A body \in UsageBodies :
             ( Begin(r, body) /\ req'[r].pc = "dup" )
               => req'[r].oneTimeUse =
                    EffectiveOneTimeUse(body, settings[body.shopDomain])
        /\ \A code \in Codes :
             Publish(r, code, "ok", AllFound(r))
               => (req'[r].usageLimit = 1 <=> req[r].oneTimeUse)
    ]_vars

\* C33: after a verified app-uninstalled webhook for an existing shop, that
\* shop's record has installed = false, a null access credential and
\* uninstalledAt set, and the webhook is answered 200; if the shop update
\* fails, the webhook is answered with a processing failure (500) so that
\* the platform redelivers it.  (Checked under SpecIntake.)
C33_UninstallAppliedOrFailed ==
  [][ \A h \in DOMAIN hook, q \in UninstallRequests :
        ( /\ \E ok \in BOOLEAN : UninstallReceive(h, Upstream(q), ok)
          /\ Genuine(q, env.SHOPIFY_WEBHOOK_SECRET)
          /\ q.body[1] = "shop"
          /\ q.body[2] \in DbShops )
        => /\ hook'[h].pc = "done"
           /\ IF /\ ~shops'[q.body[2]].installed
                 /\ shops'[q.body[2]].accessToken = ""
                 /\ shops'[q.body[2]].uninstalledAt # NullInt
              THEN hook'[h].status = 200
              ELSE hook'[h].status = 500
    ]_vars

\* The request's country list is an array that shares an element with the
\* allow-list
SharesCountry(body, allowList) ==
  /\ "(not an array)" \notin body.allowedCountries
  /\ \E c \in body.allowedCountries : c \in allowList

\* C34: when the shop configuration has a non-empty country allow-list, an
\* issuance request succeeds only if its country list shares at least one
\* element with the allow-list (an empty or non-array request list is
\* rejected with 403); when the configured allow-list is empty or there is
\* no configuration, no request is rejected on country grounds.  The
\* requests are valid, for shops that exist, and pass the member-type rule.
\* (Checked under SpecCountry.)
C34_CountryAllowList ==
  [][ \A r \in DOMAIN req, body \in CountryBodies :
        Begin(r, body)
          => LET allowList == settings[body.shopDomain].allowedCountries IN
               IF allowList # {} /\ ~SharesCountry(body, allowList)
               THEN /\ req'[r].pc = "done" /\ req'[r].status = 403
                    /\ ledger' = ledger
               ELSE req'[r].pc = "dup"
    ]_vars

\* C34 witness: under the allow-list {US, CA} one user holds a record and a
\* request has been answered 403.
C34_Witness ==
  \E r \in DOMAIN req :
    /\ settings["s1"].allowedCountries = {"US", "CA"}
    /\ req[r].pc = "done" /\ req[r].status = 403
    /\ \E i \in Rows : ledger[i].shopId = ShopId("s1")

\* C35: every discount that an issuance request has created on the platform
\* has a record with the same code in the ledger once the request has
\* completed.  (Checked under SpecInsert.)
C35_PublishedCodeInLedger ==
  \A r \in DOMAIN req :
    (req[r].pc = "done" /\ req[r].confirmed # NoCode)
      => \E i \in Rows : ledger[i].code = req[r].confirmed

\* C36: every verified order-created webhook that carries a code published
\* by this system eventually results in that code's record being marked
\* redeemed, also when the webhook is processed between the publish and the
\* ledger insert of the issuing request.  The platform delivers an event
\* again only after an answer that is not 2xx, so that an event answered
\* 200 without an update is never applied: no verified event for a code
\* that is published and waits for its insert is answered 200 without an
\* update.  (Checked under SpecOrders.)
C36_PublishedCodeEventNotDropped ==
  [][ \A h \in DOMAIN hook, q \in OrderRequests :
        ( /\ OrdersCreateReceive(h, Upstream(q))
          /\ Genuine(q, env.SHOPIFY_API_SECRET)
          /\ IsJson(q.body)
          /\ FirstCode(JsonParseOrder(q.body)) # NoCode
          /\ \E r \in DOMAIN req :
               /\ req[r].pc = "save"
               /\ req[r].confirmed = FirstCode(JsonParseOrder(q.body)) )
        => ~(hook'[h].pc = "done" /\ hook'[h].status = 200)
    ]_vars

\* C37: a record is marked redeemed only by an order-created webhook that
\* originates from the record's owning shop: a verified order event from
\* another shop that carries the same code is not taken to the update of
\* the record.  (Checked under SpecOrigin.)
C37_OnlyOwningShopRedeems ==
  [][ \A h \in DOMAIN hook, q \in OriginRequests :
        LET id == FindUniqueByCode(ledger, FirstCode(JsonParseOrder(q.body)))
        IN ( /\ OrdersCreateReceive(h, Upstream(q))
             /\ id # 0
             /\ ledger[id].shopId # ShopId(q.shopDomain) )
           => ~(hook'[h].pc = "update" /\ hook'[h].target = id)
    ]_vars

\* C38: when the shop configuration lists at least one category handle,
\* every discount published for that shop is restricted to collections and
\* never applies to all products, also when handle lookups fail or find no
\* collection.  (Checked under SpecLookup.)
C38_CategoriesNeverAllProducts ==
  \A r \in DOMAIN req :
    (req[r].confirmed # NoCode /\ req[r].categories # <<>>)
      => req[r].appliesTo = "collectionsToAdd"

\* The x-api-key header is present and equal to a configured key
HasApiKey(token) ==
  /\ token # ""
  /\ env.GOOGLE_SHEET_SECRET # NoSecret
  /\ token = env.GOOGLE_SHEET_SECRET

\* C39: an issuance request without an x-api-key header equal to the
\* configured secret is answered 401 before any handler logic, makes no
\* external call and leaves the ledger unchanged; this also holds when the
\* server-side secret is unset and the header is absent.
\* (Checked under SpecApiKey.)
C39_NoKeyNoIssuance ==
  [][ \A r \in DOMAIN req, body \in PairBodies, token \in ApiKeyTokens :
        (CreateRequest(r, body, token) /\ ~HasApiKey(token))
          => /\ req'[r] = Responded(IdleReq, 401)
             /\ req'[r].lookups = 0 /\ req'[r].creates = 0
             /\ ledger' = ledger
    ]_vars

\* C39 witness: a server without a configured key has answered 401.
C39_Witness ==
  /\ env.GOOGLE_SHEET_SECRET = NoSecret
  /\ \E r \in DOMAIN req : req[r].pc = "done" /\ req[r].status = 401

\* C40: after an app-uninstalled webhook has been processed for a shop, and
\* until the shop is installed again, no issuance request for that shop
\* creates a record, whatever the platform answers: no insert of step 9
\* adds a record for a shop that is marked uninstalled.
\* (Checked under SpecIntake.)
C40_NoRecordForUninstalledShop ==
  [][ \A r \in DOMAIN req :
        (Save(r) /\ ~shops[req[r].shopDomain].installed)
          => ledger' = ledger
    ]_vars

====
